---- MODULE Spec2Model ----
(***************************************************************************)
(* Plot panel dataset pipeline of foxglove-studio:                         *)
(*   BlockTopicCursor            (Plot/BlockTopicCursor.ts)                *)
(*   TimeseriesDatasetsBuilder   (Plot/builders/TimeseriesDatasetsBuilder) *)
(*   TimeseriesDatasetsBuilderImpl (worker side, the Series Store)         *)
(*                                                                         *)
(* The builder lives on the main thread and talks to the Impl through a    *)
(* Comlink message channel.  The channel is FIFO and the worker handles    *)
(* one message at a time, so the sequence of Impl states is a function of  *)
(* the order in which the builder sends setConfig / updateData; a send and *)
(* its handling are therefore taken as one step.                           *)
(***************************************************************************)
EXTENDS Integers, Sequences, FiniteSets, TLC

\* ------------------------------------------------------------------ bounds
\* largest x (seconds since start) carried by an item or a message
MaxX == 2
\* longest items array of one updateData action
MaxBatch == 3
\* longest full buffer explored by the store-level specification
MaxFull == 2

\* const MAX_CURRENT_DATUMS = 50_000 in the source.  The cap arithmetic is
\* parametric in the value; it is scaled down so the cap is reached.
MAX_CURRENT_DATUMS == 2

\* the global point budget of the downsamplers
MAX_POINTS == 3000

SeriesNames == {"a", "b"}
TimestampMethods == {"receiveTime", "headerStamp"}

\* the value `undefined`
Undefined == "undefined"

\* longest block array of the player's message cache
MaxBlocks == 2

VARIABLES
    seriesByMessagePath,  \* Impl: message path -> [config, full, current]
    seriesConfigs,        \* builder: array of SeriesItem, each with its cursor
    lastSeekTime,         \* builder: #lastSeekTime
    pendingDataDispatch,  \* builder: actions queued for the next updateData
    blocks,               \* the blocks array handed to the last call
    cursor,               \* a BlockTopicCursor driven call by call
    stalledAt,            \* index at which that cursor last met an absent block
    scenario,             \* progress through the "data as it arrives" run
    coordinator,          \* PlotCoordinator: queues, viewport, dispatch passes
    rebuilder,            \* makeRebuilder: queue flag and cooldown timer
    pool,                 \* ObjectPool: #objects, #isDisposed, #maxCapacity
    custom,               \* CustomDatasetsBuilderImpl: #xValues and the series
    remote,               \* calls posted to the worker and not yet answered
    multiplexer,          \* multiplex: instances and the clients handed out
    last                  \* the operation performed by the last step

vars == <<seriesByMessagePath, seriesConfigs, lastSeekTime, pendingDataDispatch,
          blocks, cursor, stalledAt, scenario, coordinator, rebuilder,
          pool, custom, remote, multiplexer, last>>

\* ------------------------------------------------------------ data items
\* DataItem: the x/y of a point (receiveTime and headerStamp are carried
\* along by the code but never read by the store).
DataItems == [x : 0..MaxX, y : 0..MaxX]

RECURSIVE SeqsUpTo(_, _)
SeqsUpTo(S, n) ==
    IF n = 0 THEN {<<>>}
    ELSE LET shorter == SeqsUpTo(S, n - 1)
         IN  shorter \cup {Append(s, e) : s \in {t \in shorter : Len(t) = n - 1}, e \in S}

\* items whose y is tied to x, to keep the input space small where y is inert
PlainItems == {[x |-> v, y |-> v] : v \in 0..MaxX}

Max(a, b) == IF a > b THEN a ELSE b
Min(a, b) == IF a < b THEN a ELSE b

\* Array.prototype.splice(0, n): drop the first n elements (all, when n > Len)
SpliceFront(s, n) == SubSeq(s, Min(n, Len(s)) + 1, Len(s))

\* Array.prototype.sort(compareDatum), compareDatum = a.x - b.x; the sort is
\* stable: insert each element after the last element with x <= its x.
RECURSIVE InsertByX(_, _)
InsertByX(sorted, d) ==
    IF sorted = <<>> THEN <<d>>
    ELSE IF sorted[Len(sorted)].x <= d.x THEN Append(sorted, d)
    ELSE Append(InsertByX(SubSeq(sorted, 1, Len(sorted) - 1), d), sorted[Len(sorted)])

RECURSIVE SortByX(_)
SortByX(s) ==
    IF s = <<>> THEN <<>>
    ELSE InsertByX(SortByX(SubSeq(s, 1, Len(s) - 1)), s[Len(s)])

\* `series.full[series.full.length - 1]?.x` is undefined for an empty buffer
HasLastX(buf) == buf # <<>>
LastX(buf) == buf[Len(buf)].x

\* push each item with index = the buffer's length at the time of the push
RECURSIVE PushAll(_, _)
PushAll(buf, items) ==
    IF items = <<>> THEN buf
    ELSE PushAll(Append(buf, [index |-> Len(buf), x |-> items[1].x, y |-> items[1].y]),
                 SubSeq(items, 2, Len(items)))

\* `if (lastX != undefined && item.x <= lastX) continue;`
IsStale(item, full) == HasLastX(full) /\ item.x <= LastX(full)

\* the items of an append-current that are pushed: those past full's last x
RECURSIVE SkipStale(_, _)
SkipStale(items, full) ==
    IF items = <<>> THEN <<>>
    ELSE IF IsStale(items[1], full)
         THEN SkipStale(SubSeq(items, 2, Len(items)), full)
         ELSE <<items[1]>> \o SkipStale(SubSeq(items, 2, Len(items)), full)

\* number of leading entries of current with x <= lastX (the loop breaks at
\* the first entry with x > lastX)
RECURSIVE StalePrefix(_, _)
StalePrefix(current, lastX) ==
    IF current = <<>> \/ current[1].x > lastX THEN 0
    ELSE 1 + StalePrefix(SubSeq(current, 2, Len(current)), lastX)

\* ------------------------------------------------------------ the Impl
\* #applyAction, case "reset-current"
ResetCurrent(series) == [series EXCEPT !.current = <<>>]

\* a faulty reset-full that leaves the newest point in place
ResetFullKeepingLast(series) ==
    [series EXCEPT !.full = IF @ = <<>> THEN <<>> ELSE <<@[Len(@)]>>]

\* #applyAction, case "reset-full"
ResetFull(series) == [series EXCEPT !.full = <<>>]

\* #applyAction, case "append-current"
AppendCurrent(series, items) ==
    LET cullSize == Max(0, Len(series.current) + Len(items) - MAX_CURRENT_DATUMS)
        culled   == SpliceFront(series.current, cullSize)
        sorted   == IF series.config.timestampMethod = "headerStamp"
                    THEN SortByX(items) ELSE items
        pushed   == PushAll(culled, SkipStale(sorted, series.full))
    IN  [series EXCEPT !.current =
            IF series.config.timestampMethod = "headerStamp"
            THEN SortByX(pushed) ELSE pushed]

\* #applyAction, case "append-full"
\* a faulty append-full that, like append-current, skips the items not past
\* the last x of full
AppendFullSkippingStale(series, items) ==
    LET pushed == PushAll(series.full, SkipStale(items, series.full))
        full   == IF series.config.timestampMethod = "headerStamp" THEN SortByX(pushed) ELSE pushed
        idx    == IF HasLastX(full) THEN StalePrefix(series.current, LastX(full)) ELSE 0
    IN  [series EXCEPT !.full = full, !.current = IF idx > 0 THEN SpliceFront(@, idx) ELSE @]

AppendFull(series, items) ==
    LET pushed == PushAll(series.full, items)
        full   == IF series.config.timestampMethod = "headerStamp"
                  THEN SortByX(pushed) ELSE pushed
        idx    == IF HasLastX(full) THEN StalePrefix(series.current, LastX(full)) ELSE 0
    IN  [series EXCEPT !.full = full,
                       !.current = IF idx > 0 THEN SpliceFront(@, idx) ELSE @]

\* #applyAction: an action naming an unknown series returns without effect
ApplyAction(store, action) ==
    IF action.series \notin DOMAIN store THEN store
    ELSE LET series == store[action.series]
         IN  [store EXCEPT ![action.series] =
                CASE action.type = "reset-current"  -> ResetCurrent(series)
                  [] action.type = "reset-full"     -> ResetFull(series)
                  [] action.type = "append-current" -> AppendCurrent(series, action.items)
                  [] action.type = "append-full"    -> AppendFull(series, action.items)]

\* a faulty updateData that gives up the batch at an action for an unknown
\* series
RECURSIVE UpdateDataStoppingAtUnknown(_, _)
UpdateDataStoppingAtUnknown(store, actions) ==
    IF actions = <<>> \/ actions[1].series \notin DOMAIN store THEN store
    ELSE UpdateDataStoppingAtUnknown(ApplyAction(store, actions[1]),
                                     SubSeq(actions, 2, Len(actions)))

\* a faulty updateData that works through the batch from its end
RECURSIVE UpdateDataLastFirst(_, _)
UpdateDataLastFirst(store, actions) ==
    IF actions = <<>> THEN store
    ELSE UpdateDataLastFirst(ApplyAction(store, actions[Len(actions)]),
                             SubSeq(actions, 1, Len(actions) - 1))

\* updateData: apply the actions of the batch in order
RECURSIVE UpdateData(_, _)
UpdateData(store, actions) ==
    IF actions = <<>> THEN store
    ELSE UpdateData(ApplyAction(store, actions[1]), SubSeq(actions, 2, Len(actions)))

\* SeriesConfigKey, compared with deep equality: the resolved path (one per
\* message path here) and the timestamp method
ConfigKey(name, method) == [path |-> name, timestampMethod |-> method]

\* a faulty setConfig that keeps the buffers of every message path it knows,
\* whatever the key
ImplSetConfigByPath(store, configs) ==
    [name \in DOMAIN configs |->
        IF name \in DOMAIN store
        THEN [store[name] EXCEPT !.config = configs[name]]
        ELSE [config |-> configs[name], current |-> <<>>, full |-> <<>>]]

\* Impl.setConfig: configs is a function from the new message paths to their
\* config; a series keeps its buffers iff its key is unchanged
ImplSetConfig(store, configs) ==
    [name \in DOMAIN configs |->
        IF name \in DOMAIN store /\ store[name].config.key = configs[name].key
        THEN [store[name] EXCEPT !.config = configs[name]]
        ELSE [config |-> configs[name], current |-> <<>>, full |-> <<>>]]

\* SeriesConfig: the fields the Impl reads (color and derivative are left
\* out: no path explored is a derivative)
SeriesConfig(name, method, enabled, showLine, lineSize) ==
    [key |-> ConfigKey(name, method), timestampMethod |-> method,
     enabled |-> enabled, showLine |-> showLine, lineSize |-> lineSize]

\* an enabled series drawn as a line of size 1
MakeConfig(name, method) == SeriesConfig(name, method, TRUE, TRUE, 1)

\* ------------------------------------------------------ the block cache
\* An element of the blocks array is undefined (not loaded), a block whose
\* messagesByTopic has no entry for the topic, or a block whose entry for
\* the topic is a message array.  Arrays are compared by identity, so each
\* array is named by a reference; its content never changes.
Absent == "absent"
NoTopic == "noTopic"
PayloadRefs == {"P1", "P2", "P3", "E"}
BlockStates == {Absent, NoTopic} \cup PayloadRefs
\* the arrays handed to a cursor driven call by call; the cursor treats an
\* empty array for the topic like any other array
BlockArrays == SeqsUpTo(BlockStates \ {"E"}, MaxBlocks)
\* the arrays handed to the builder
BuilderBlockArrays == SeqsUpTo({Absent, NoTopic, "P1", "P2"}, MaxBlocks)
\* the arrays of a cache that is loading: each block holds the topic or is
\* not loaded yet
LoadingBlockArrays == SeqsUpTo({Absent, "P1", "P2"}, MaxBlocks)

\* MessageEvent: receiveTime t, header stamp h, value v (seconds / number)
PayloadMsgs(ref) ==
    CASE ref = "P1" -> <<[t |-> 0, h |-> 1, v |-> 0]>>
      [] ref = "P2" -> <<[t |-> 1, h |-> 0, v |-> 1]>>
      [] ref = "P3" -> <<[t |-> 2, h |-> 2, v |-> 2]>>
      [] ref = "E"  -> <<>>

\* block.messagesByTopic[topic] for an element of the blocks array
MessagesByTopic(block) == IF block \in PayloadRefs THEN block ELSE Undefined

\* blocks[0]?.messagesByTopic[this.#topic]
FirstBlockTopic(blks) == IF blks = <<>> THEN Undefined ELSE MessagesByTopic(blks[1])

\* new BlockTopicCursor(topic)
NewCursor == [firstBlockRef |-> Undefined, nextBlockIdx |-> 0]

\* a faulty nextWillReset: silent about the reset of a cursor that has not
\* read a block yet
NextWillResetAfterProgress(c, blks) ==
    FirstBlockTopic(blks) # c.firstBlockRef /\ c.nextBlockIdx > 0

\* BlockTopicCursor.nextWillReset
NextWillReset(c, blks) == FirstBlockTopic(blks) # c.firstBlockRef

\* BlockTopicCursor.next, first part: reset when the first block's array for
\* the topic is another object than the one recorded
ResetIfChanged(c, blks) ==
    IF FirstBlockTopic(blks) # c.firstBlockRef
    THEN [firstBlockRef |-> FirstBlockTopic(blks), nextBlockIdx |-> 0]
    ELSE c

\* a faulty read that steps over a block that is not loaded
ReadAtSkippingAbsent(c, blks) ==
    LET idx == c.nextBlockIdx
    IN  IF idx >= Len(blks) THEN [cursor |-> c, ret |-> Undefined]
        ELSE [cursor |-> [c EXCEPT !.nextBlockIdx = idx + 1],
              ret |-> MessagesByTopic(blks[idx + 1])]

\* BlockTopicCursor.next, second part: read the block at idx (0-based)
ReadAt(c, blks) ==
    LET idx == c.nextBlockIdx
    IN  IF idx >= Len(blks) THEN [cursor |-> c, ret |-> Undefined]
        ELSE IF blks[idx + 1] = Absent THEN [cursor |-> c, ret |-> Undefined]
        ELSE [cursor |-> [c EXCEPT !.nextBlockIdx = idx + 1],
              ret |-> MessagesByTopic(blks[idx + 1])]

\* BlockTopicCursor.next: the cursor after the call and the returned array
Next_(c, blks) == ReadAt(ResetIfChanged(c, blks), blks)


\* ------------------------------------------------------- the downsampler
\* IEEE values that are not numbers of the model
NaN == -1000
Infinity == 1000

\* viewport size in pixels
ViewWidth == 4
ViewHeight == 4

\* a !== b on numbers: NaN differs from everything, itself included
NotSame(a, b) == a = NaN \/ b = NaN \/ a # b

\* Math.trunc(v * (size / (hi - lo))) for v >= 0: a zero range gives an
\* infinite scale, and 0 * Infinity is NaN; the range of bounds no value
\* entered is MIN_VALUE - MAX_VALUE, whose scale truncates every v to -0
Pixel(v, size, lo, hi) ==
    IF v = NaN THEN NaN
    ELSE IF hi - lo > 0 THEN (v * size) \div (hi - lo)
    ELSE IF hi - lo < 0 THEN 0
    ELSE IF v = 0 THEN NaN ELSE Infinity

\* datum.label: undefined for the datums of the plot series, which carry
\* no label
NoLabel == "undefined"
Label(d) == IF "label" \in DOMAIN d THEN d.label ELSE NoLabel

NoInterval == [has |-> FALSE, xPixel |-> 0, yPixel |-> 0, label |-> NoLabel, index |-> 0]

\* the pushes made when an interval ends: min, max, last
CloseInterval(st) ==
    LET f == st.intFirst
        l == st.intLast
        mn == st.intMin
        mx == st.intMax
        a == IF mn.has /\ (~f.has \/ NotSame(mn.yPixel, f.yPixel))
                       /\ (~l.has \/ NotSame(mn.yPixel, l.yPixel))
             THEN <<mn.index>> ELSE <<>>
        b == IF mx.has /\ (~f.has \/ NotSame(mx.yPixel, f.yPixel))
                       /\ (~l.has \/ NotSame(mx.yPixel, l.yPixel))
             THEN <<mx.index>> ELSE <<>>
        c == IF l.has /\ (~f.has \/ NotSame(f.yPixel, l.yPixel))
             THEN <<l.index>> ELSE <<>>
    IN  st.out \o a \o b \o c

\* datum.x < minX and datum.x > maxX, with minX / maxX the bounds widened by
\* half the range
BeforeWindow(d, view) ==
    d.x # NaN /\ 2 * d.x < 2 * view.xmin - (view.xmax - view.xmin)
PastWindow(d, view) ==
    d.x # NaN /\ 2 * d.x > 2 * view.xmax + (view.xmax - view.xmin)

\* a faulty iteration that retains every datum before the window
DownsampleStepKeepingAllBefore(st, d, view) ==
    IF BeforeWindow(d, view) THEN [st EXCEPT !.out = Append(@, d.index)]
    ELSE IF PastWindow(d, view) THEN [st EXCEPT !.past = d.index, !.hasPast = TRUE]
    ELSE [st EXCEPT !.out = Append(@, d.index)]

\* one iteration of downsampleTimeseries' loop (2 * x is compared with
\* 2 * bound so that the half range stays an integer); a datum whose label
\* differs from the interval's label starts a new interval
DownsampleStep(st, d, view) ==
    LET range == view.xmax - view.xmin
        x == Pixel(d.x, view.width, view.xmin, view.xmax)
        y == Pixel(d.y, view.height, view.ymin, view.ymax)
        it == [has |-> TRUE, xPixel |-> x, yPixel |-> y, label |-> Label(d), index |-> d.index]
    IN  IF d.x # NaN /\ 2 * d.x < 2 * view.xmin - range
        THEN [st EXCEPT !.out = IF st.out = <<>> THEN <<d.index>>
                                ELSE [st.out EXCEPT ![1] = d.index]]
        ELSE IF d.x # NaN /\ 2 * d.x > 2 * view.xmax + range
        THEN [st EXCEPT !.past = d.index, !.hasPast = TRUE]
        ELSE IF \/ ~st.intFirst.has
                \/ NotSame(st.intFirst.xPixel, x)
                \/ (st.intLast.has /\ st.intLast.label # NoLabel /\ st.intLast.label # Label(d))
        THEN [st EXCEPT !.out = Append(CloseInterval(st), d.index),
                        !.intFirst = it, !.intLast = it, !.intMin = it, !.intMax = it]
        ELSE [st EXCEPT !.intLast = [@ EXCEPT !.xPixel = x, !.yPixel = y],
                        !.intMin = IF y # NaN /\ @.yPixel # NaN /\ y < @.yPixel
                                   THEN [@ EXCEPT !.yPixel = y, !.index = d.index] ELSE @,
                        !.intMax = IF y # NaN /\ @.yPixel # NaN /\ y > @.yPixel
                                   THEN [@ EXCEPT !.yPixel = y, !.index = d.index] ELSE @]

RECURSIVE DownsampleLoop(_, _, _)
DownsampleLoop(st, items, view) ==
    IF items = <<>> THEN st
    ELSE DownsampleLoop(DownsampleStep(st, items[1], view), SubSeq(items, 2, Len(items)), view)

\* downsampleTimeseries: the indices kept; `if (firstPastBounds)` is false
\* for index 0
DownsampleTimeseries(items, view) ==
    LET st == DownsampleLoop([out |-> <<>>, intFirst |-> NoInterval, intLast |-> NoInterval,
                              intMin |-> NoInterval, intMax |-> NoInterval,
                              past |-> 0, hasPast |-> FALSE], items, view)
    IN  CloseInterval(st) \o (IF st.hasPast /\ st.past # 0 THEN <<st.past>> ELSE <<>>)

\* Math.round(v * (size / (hi - lo))) for v >= 0, with the scales of Pixel
RoundPixel(v, size, lo, hi) ==
    IF v = NaN THEN NaN
    ELSE IF hi - lo > 0 THEN (2 * v * size + (hi - lo)) \div (2 * (hi - lo))
    ELSE IF hi - lo < 0 THEN 0
    ELSE IF v = 0 THEN NaN ELSE Infinity

\* y * pixelPerRow + x
Locator(x, y, width) ==
    IF x = NaN \/ y = NaN THEN NaN
    ELSE IF x = Infinity \/ y = Infinity THEN Infinity
    ELSE y * width + x

\* the loop of downsampleScatter: st.sparse holds the locators set so far
RECURSIVE ScatterLoop(_, _, _)
ScatterLoop(st, items, view) ==
    IF items = <<>> THEN st
    ELSE LET d == items[1]
             rest == SubSeq(items, 2, Len(items))
             loc == Locator(RoundPixel(d.x, view.width, view.xmin, view.xmax),
                            RoundPixel(d.y, view.height, view.ymin, view.ymax),
                            view.width)
         IN  IF d.x # NaN /\ (d.x > view.xmax \/ d.x < view.xmin)
             THEN ScatterLoop(st, rest, view)
             ELSE IF loc \in st.sparse
             THEN ScatterLoop(st, rest, view)
             ELSE ScatterLoop([out |-> Append(st.out, d.index),
                               sparse |-> st.sparse \cup {loc}], rest, view)

\* downsampleScatter: the indices kept, one per pixel location
DownsampleScatter(items, view) ==
    ScatterLoop([out |-> <<>>, sparse |-> {}], items, view).out

\* ------------------------------------------------- getViewportDatasets
\* viewport.bounds.x is undefined (hasX = FALSE) or {min, max}; y is left
\* to the data
Viewports == {[hasX |-> FALSE, min |-> 0, max |-> 0], [hasX |-> TRUE, min |-> 1, max |-> 2]}

NaNMarker == [index |-> 0, x |-> NaN, y |-> NaN]

\* a faulty concatenation that puts no entry between full and current
AllDataWithoutMarker(series) == series.full \o series.current

\* full, then the NaN entry and current when current is not empty
AllData(series) ==
    IF series.current = <<>> THEN series.full
    ELSE series.full \o <<NaNMarker>> \o series.current

\* the trimming loop: item.index = i for every item visited, startIdx,
\* endIdx and the set of x / y values that enter the bounds.  `numeric`
\* holds the positions whose values were united into xBounds / yBounds.
RECURSIVE TrimLoop(_, _, _)
TrimLoop(acc, i, vp) ==
    IF i > Len(acc.data) THEN acc
    ELSE LET item == acc.data[i]
             a1 == [acc EXCEPT !.data[i].index = i - 1]
         IN  IF vp.hasX /\ item.x # NaN /\ item.x < vp.min
             THEN TrimLoop([a1 EXCEPT !.startIdx = i - 1], i + 1, vp)
             ELSE LET a2 == [a1 EXCEPT !.seen = @ \cup {i}]
                  IN  IF vp.hasX /\ item.x # NaN /\ item.x > vp.max
                      THEN [a2 EXCEPT !.endIdx = i - 1]
                      ELSE TrimLoop(a2, i + 1, vp)

SetMin(S) == CHOOSE v \in S : \A w \in S : v <= w
SetMax(S) == CHOOSE v \in S : \A w \in S : v >= w

\* unionBounds1D folded from {min: MAX_VALUE, max: MIN_VALUE} over the
\* values that are not NaN; MIN_VALUE is the smallest positive double, so
\* the max of values all <= 0 stays within rounding of 0
DataMin(vals) == LET n == vals \ {NaN} IN IF n = {} THEN Infinity ELSE SetMin(n)
DataMax(vals) == LET n == vals \ {NaN} IN IF n = {} THEN 0 ELSE Max(0, SetMax(n))

\* a faulty radius that is the line size itself
PointRadiusOfLineSize(lineSize) == 10 * lineSize

\* series.config.lineSize * 1.2, in tenths
PointRadius(lineSize) == 12 * lineSize

\* the budget handed to downsampleTimeseries: MAX_POINTS / numSeries, with
\* numSeries the size of the series map
MaxPoints(store) == MAX_POINTS \div Cardinality(DOMAIN store)

\* one series' render dataset: its data array (points) and pointRadius, with
\* what the call built on the way (allData, the slice given to the
\* downsampler, the indices it returned) and the series' buffers after the
\* call (the loop writes .index into the stored datums)
ViewportDataset(series, vp) ==
    LET all  == AllData(series)
        acc  == TrimLoop([data |-> all, startIdx |-> 0, endIdx |-> Len(all), seen |-> {}], 1, vp)
        data == acc.data
        items == SubSeq(data, acc.startIdx + 1, Min(acc.endIdx + 1, Len(data)))
        xs == {data[i].x : i \in acc.seen}
        ys == {data[i].y : i \in acc.seen}
        view == [width |-> ViewWidth, height |-> ViewHeight,
                 xmin |-> IF vp.hasX THEN vp.min ELSE DataMin(xs),
                 xmax |-> IF vp.hasX THEN vp.max ELSE DataMax(xs),
                 ymin |-> DataMin(ys), ymax |-> DataMax(ys)]
        picked == IF series.config.showLine THEN DownsampleTimeseries(items, view)
                  ELSE DownsampleScatter(items, view)
        nfull == Len(series.full)
    IN  [points |-> [k \in 1..Len(picked) |->
                        [x |-> data[picked[k] + 1].x, y |-> data[picked[k] + 1].y]],
         given |-> items,
         all |-> all,
         picked |-> picked,
         pointRadius |-> IF Len(picked) < Len(items) /\ series.config.showLine
                         THEN 0 ELSE PointRadius(series.config.lineSize),
         series |-> [series EXCEPT
                        !.full = SubSeq(data, 1, nfull),
                        !.current = IF series.current = <<>> THEN <<>>
                                    ELSE SubSeq(data, nfull + 2, Len(data))]]

\* Impl.getViewportDatasets: the datasets of the enabled series, by message
\* path, each with the budget computed for it
ImplDatasets(store, vp) ==
    [name \in {n \in DOMAIN store : store[n].config.enabled} |->
        LET d == ViewportDataset(store[name], vp)
        IN  [data |-> d.points, pointRadius |-> d.pointRadius,
             showLine |-> store[name].config.showLine,
             borderWidth |-> store[name].config.lineSize,
             all |-> d.all, given |-> d.given, picked |-> d.picked,
             maxPoints |-> MaxPoints(store)]]

\* the store after Impl.getViewportDatasets: the datums of the enabled
\* series carry the index the loop wrote
AfterViewportDatasets(store, vp) ==
    [name \in DOMAIN store |->
        IF store[name].config.enabled THEN ViewportDataset(store[name], vp).series
        ELSE store[name]]

\* the x / y of the datums of a buffer
XY(buf) == [i \in 1..Len(buf) |-> [x |-> buf[i].x, y |-> buf[i].y]]

\* a faulty export that goes through the render concatenation
GetCsvDataOfAllData(store) ==
    [name \in {n \in DOMAIN store : store[n].config.enabled} |->
        [label |-> name, data |-> XY(AllData(store[name]))]]

\* Impl.getCsvData: per enabled series, full followed by current
GetCsvData(store) ==
    [name \in {n \in DOMAIN store : store[n].config.enabled} |->
        [label |-> name, data |-> XY(store[name].full \o store[name].current)]]

\* ------------------------------------------------------------ the builder
\* longest activeData.messages of one player state
MaxLive == 1
\* largest lastSeekTime
MaxSeek == 1
\* handlePlayerState is not explored while more actions than this wait
MaxPending == 2

\* the messages a player state can carry
LiveMsgs == {[t |-> 1, h |-> 2, v |-> 1], [t |-> 2, h |-> 1, v |-> 2]}
LiveBatches == SeqsUpTo(LiveMsgs, MaxLive)

\* readMessagePathItems: x is the receive time or the header stamp, since
\* startTime (0 here); every message is on the series' topic
ReadMessagePathItems(events, method) ==
    [i \in 1..Len(events) |->
        [x |-> IF method = "receiveTime" THEN events[i].t ELSE events[i].h,
         y |-> events[i].v]]

Action(type, s, items) == [type |-> type, series |-> s, items |-> items]

\* handlePlayerState, lines 82-110: per series the optional reset-current
\* and the append-current
RECURSIVE LiveActions(_, _, _)
LiveActions(cfgs, didSeek, msgs) ==
    IF cfgs = <<>> THEN <<>>
    ELSE (IF didSeek THEN <<Action("reset-current", cfgs[1].messagePath, <<>>)>> ELSE <<>>)
         \o <<Action("append-current", cfgs[1].messagePath,
                     ReadMessagePathItems(msgs, cfgs[1].timestampMethod))>>
         \o LiveActions(SubSeq(cfgs, 2, Len(cfgs)), didSeek, msgs)

\* `while ((messageEvents = cursor.next(blocks)) != undefined)`: the cursor
\* after the loop and the arrays it returned
RECURSIVE Drain(_, _)
Drain(c, blks) ==
    LET r == Next_(c, blks)
    IN  IF r.ret = Undefined THEN [cursor |-> r.cursor, rets |-> <<>>]
        ELSE LET rest == Drain(r.cursor, blks)
             IN  [cursor |-> rest.cursor, rets |-> <<r.ret>> \o rest.rets]

\* a faulty block loop that queues the reset-full behind the appends
BlockActionsResetLast(item, blks) ==
    LET d == Drain(item.blockCursor, blks)
    IN  [k \in 1..Len(d.rets) |->
              Action("append-full", item.messagePath,
                     ReadMessagePathItems(PayloadMsgs(d.rets[k]), item.timestampMethod))]
        \o (IF NextWillReset(item.blockCursor, blks)
            THEN <<Action("reset-full", item.messagePath, <<>>)>> ELSE <<>>)

\* handlePlayerState, lines 119-141, for one series
BlockActions(item, blks) ==
    LET d == Drain(item.blockCursor, blks)
    IN  (IF NextWillReset(item.blockCursor, blks)
         THEN <<Action("reset-full", item.messagePath, <<>>)>> ELSE <<>>)
        \o [k \in 1..Len(d.rets) |->
              Action("append-full", item.messagePath,
                     ReadMessagePathItems(PayloadMsgs(d.rets[k]), item.timestampMethod))]

RECURSIVE AllBlockActions(_, _)
AllBlockActions(cfgs, blks) ==
    IF cfgs = <<>> THEN <<>>
    ELSE BlockActions(cfgs[1], blks) \o AllBlockActions(SubSeq(cfgs, 2, Len(cfgs)), blks)

\* the series items after the block loop moved their cursors
DrainedConfigs(cfgs, blks) ==
    [i \in 1..Len(cfgs) |-> [cfgs[i] EXCEPT !.blockCursor = Drain(@, blks).cursor]]

\* builder.setConfig: a series keeps its block cursor iff an item of the
\* previous configuration has an equal key
FindCursor(old, key) ==
    IF \E i \in 1..Len(old) : old[i].key = key
    THEN old[CHOOSE i \in 1..Len(old) :
                old[i].key = key /\ \A j \in 1..(i - 1) : old[j].key # key].blockCursor
    ELSE NewCursor

BuilderSetConfig(old, paths) ==
    [i \in 1..Len(paths) |->
        [key |-> ConfigKey(paths[i].value, paths[i].timestampMethod),
         messagePath |-> paths[i].value,
         timestampMethod |-> paths[i].timestampMethod,
         enabled |-> TRUE, showLine |-> TRUE, lineSize |-> 1,
         blockCursor |-> FindCursor(old, ConfigKey(paths[i].value, paths[i].timestampMethod))]]

\* the SeriesConfig array as the Impl indexes it, by message path
ImplConfigs(cfgs) ==
    [name \in {cfgs[i].messagePath : i \in 1..Len(cfgs)} |->
        LET i == CHOOSE j \in 1..Len(cfgs) :
                    cfgs[j].messagePath = name
                    /\ \A k \in (j + 1)..Len(cfgs) : cfgs[k].messagePath # name
        IN  [key |-> cfgs[i].key, timestampMethod |-> cfgs[i].timestampMethod,
             enabled |-> cfgs[i].enabled, showLine |-> cfgs[i].showLine,
             lineSize |-> cfgs[i].lineSize]]

\* config.paths explored: no path twice
PathChoices ==
    LET P(n, m) == [value |-> n, timestampMethod |-> m]
    IN  {<<>>} \cup {<<P("a", m)>> : m \in TimestampMethods}
        \cup {<<P("a", "receiveTime"), P("b", "headerStamp")>>}


\* ------------------------------------------------------ PlotCoordinator
\* most calls of the coordinator's public methods explored
MaxEvents == 2
\* most calls of a rebuilder explored within one cooldown
MaxRebuilderCalls == 2

\* A function made by debouncePromise: inFlight counts the invocations of
\* the underlying function that have not settled, pending is the slot for
\* one further invocation, missed counts the calls made since the
\* invocation in flight began.
NewDebounce == [inFlight |-> 0, pending |-> FALSE, missed |-> 0]
\* the debounced function was called while an invocation is in flight
DebounceQueue(d) == [d EXCEPT !.pending = TRUE, !.missed = @ + 1]
\* the underlying function is invoked
DebounceStart(d) == [d EXCEPT !.inFlight = @ + 1, !.pending = FALSE, !.missed = 0]
\* the promise of the invocation in flight settled
DebounceSettle(d) == [d EXCEPT !.inFlight = @ - 1]

\* Every call of a public method takes the next ticket; a queued action, a
\* viewport field and a request carry the ticket of the call they stem
\* from, which stands for the value (size, bounds, items) of that call.
\* renderer: the ticket of the latest action the renderer received, the
\* version of the bounds it returns. queued, delivered, sent and owed
\* observe the run: the latest ticket queued per kind, the latest data
\* ticket passed to updateData, the viewport and data of the latest
\* getViewportDatasets call, and whether a render pass has ended with no
\* dataset pass started since.
NewCoordinator ==
    [pendingRenderActions |-> <<>>, pendingDataDispatch |-> <<>>,
     viewport |-> [size |-> 0, x |-> 0],
     queueDispatchRender |-> NewDebounce, queueDispatchDatasets |-> NewDebounce,
     render |-> [pc |-> "idle", haveInteractionEvents |-> FALSE],
     datasets |-> "idle",
     renderer |-> 0, tickets |-> 0,
     queued |-> [size |-> 0, x |-> 0, data |-> 0],
     delivered |-> 0,
     sent |-> [size |-> 0, x |-> 0, data |-> 0],
     owed |-> FALSE]

\* datasetsBuilderRemote.getViewportDatasets(this.#viewport) is called
GetViewportDatasetsCall(c) ==
    [c EXCEPT !.sent = [size |-> c.viewport.size, x |-> c.viewport.x, data |-> c.delivered],
              !.datasets = "getViewportDatasets"]

\* a faulty pass that asks for the datasets and leaves the queued data
\* actions where they are
DispatchDatasetsWithoutUpdate(c) == GetViewportDatasetsCall(c)

\* #dispatchDatasets up to its first await: the queued data actions are
\* taken and passed to updateData, or with none queued the datasets are asked
\* for at once
DispatchDatasets(c) ==
    IF c.pendingDataDispatch # <<>>
    THEN [c EXCEPT !.pendingDataDispatch = <<>>,
                   !.delivered = c.pendingDataDispatch[Len(c.pendingDataDispatch)],
                   !.datasets = "updateData"]
    ELSE GetViewportDatasetsCall(c)

StartDatasets(c) ==
    DispatchDatasets([c EXCEPT !.queueDispatchDatasets = DebounceStart(@), !.owed = FALSE])

\* this.#queueDispatchDatasets()
QueueDispatchDatasets(c) ==
    IF c.queueDispatchDatasets.inFlight > 0
    THEN [c EXCEPT !.queueDispatchDatasets = DebounceQueue(@)]
    ELSE StartDatasets(c)

\* #dispatchRender up to its first await
StartRender(c) ==
    [c EXCEPT !.queueDispatchRender = DebounceStart(@), !.render.pc = "rendererInstance"]

\* this.#queueDispatchRender()
QueueDispatchRender(c) ==
    IF c.queueDispatchRender.inFlight > 0
    THEN [c EXCEPT !.queueDispatchRender = DebounceQueue(@)]
    ELSE StartRender(c)

\* the promise of a render pass settled: a call made meanwhile starts the
\* next pass
SettleRender(c) ==
    LET c1 == [c EXCEPT !.queueDispatchRender = DebounceSettle(@), !.render.pc = "idle"]
    IN  IF c.queueDispatchRender.pending THEN StartRender(c1) ELSE c1

SettleDatasets(c) ==
    LET c1 == [c EXCEPT !.queueDispatchDatasets = DebounceSettle(@), !.datasets = "idle"]
    IN  IF c.queueDispatchDatasets.pending THEN StartDatasets(c1) ELSE c1

\* the last statement of #dispatchRender and the end of the pass
DispatchRenderEnd(c) == SettleRender(QueueDispatchDatasets([c EXCEPT !.owed = TRUE]))

\* the ticket of the last action of one of `types`, or `none`
RECURSIVE LastOfTypes(_, _, _)
LastOfTypes(actions, types, none) ==
    IF actions = <<>> THEN none
    ELSE LET a == actions[Len(actions)]
         IN  IF a.type \in types THEN a.ticket
             ELSE LastOfTypes(SubSeq(actions, 1, Len(actions) - 1), types, none)

\* #dispatchRender once the renderer is there: the size and range actions
\* are applied to the viewport in order and the queue is sent to the
\* renderer, or with nothing queued the pass ends
DispatchRender(c) ==
    LET actions == c.pendingRenderActions
    IN  IF actions # <<>>
        THEN [c EXCEPT
                !.viewport = [size |-> LastOfTypes(actions, {"size"}, c.viewport.size),
                              x |-> LastOfTypes(actions, {"range"}, c.viewport.x)],
                !.pendingRenderActions = <<>>,
                !.renderer = LastOfTypes(actions, {"range", "event"}, c.renderer),
                !.render = [pc |-> "dispatchActions",
                            haveInteractionEvents |->
                                \E i \in 1..Len(actions) : actions[i].type = "event"]]
        ELSE DispatchRenderEnd(c)

\* #dispatchRender once dispatchActions returned, with bounds or without
DispatchRenderBounds(c, bounds) ==
    DispatchRenderEnd(
        IF c.render.haveInteractionEvents /\ bounds
        THEN [c EXCEPT !.viewport.x = c.renderer, !.render.haveInteractionEvents = FALSE]
        ELSE [c EXCEPT !.render.haveInteractionEvents = FALSE])

\* this.#pendingRenderActions.push of an action of the call being made
PushRenderAction(c, type) ==
    [c EXCEPT !.pendingRenderActions = Append(@, [type |-> type, ticket |-> c.tickets]),
              !.queued = IF type = "size" THEN [@ EXCEPT !.size = c.tickets]
                         ELSE IF type = "range" THEN [@ EXCEPT !.x = c.tickets]
                         ELSE @]

PushDataAction(c) ==
    [c EXCEPT !.pendingDataDispatch = Append(@, c.tickets), !.queued.data = c.tickets]

NextTicket(c) == [c EXCEPT !.tickets = @ + 1]

OnlyCoordinator ==
    UNCHANGED <<seriesByMessagePath, seriesConfigs, lastSeekTime, pendingDataDispatch,
                blocks, cursor, stalledAt, scenario, rebuilder, multiplexer,
                pool, custom, remote>>

\* handlePlayerState with active data: a current-time action when the time
\* moved, a range action when the base range moved, data actions when
\* messages or blocks arrived
CoordinatorHandlePlayerState(time, range, data) ==
    LET c0 == NextTicket(coordinator)
        c1 == IF time THEN PushRenderAction(c0, "current-time") ELSE c0
        c2 == IF range THEN PushRenderAction(c1, "range") ELSE c1
        c3 == IF data THEN PushDataAction(c2) ELSE c2
    IN  /\ coordinator.tickets < MaxEvents
        /\ coordinator' = QueueDispatchRender(c3)
        /\ last' = [op |-> "handlePlayerState"]
        /\ OnlyCoordinator

\* handleConfig queues the reference lines and no render pass
HandleConfig ==
    /\ coordinator.tickets < MaxEvents
    /\ coordinator' = PushRenderAction(NextTicket(coordinator), "references-lines")
    /\ last' = [op |-> "handleConfig"]
    /\ OnlyCoordinator

SetTimeseriesBounds ==
    /\ coordinator.tickets < MaxEvents
    /\ coordinator' = QueueDispatchRender(PushRenderAction(NextTicket(coordinator), "range"))
    /\ last' = [op |-> "setTimeseriesBounds"]
    /\ OnlyCoordinator

\* resetBounds also clears the bounds of the viewport itself
ResetBounds ==
    LET c1 == PushRenderAction(NextTicket(coordinator), "range")
    IN  /\ coordinator.tickets < MaxEvents
        /\ coordinator' = QueueDispatchRender([c1 EXCEPT !.viewport.x = c1.tickets])
        /\ last' = [op |-> "resetBounds"]
        /\ OnlyCoordinator

SetSize ==
    /\ coordinator.tickets < MaxEvents
    /\ coordinator' = QueueDispatchRender(PushRenderAction(NextTicket(coordinator), "size"))
    /\ last' = [op |-> "setSize"]
    /\ OnlyCoordinator

AddInteractionEvent ==
    /\ coordinator.tickets < MaxEvents
    /\ coordinator' = QueueDispatchRender(PushRenderAction(NextTicket(coordinator), "event"))
    /\ last' = [op |-> "addInteractionEvent"]
    /\ OnlyCoordinator

\* await this.#rendererInstance() in #dispatchRender resolves
RenderRendererResolved ==
    /\ coordinator.render.pc = "rendererInstance"
    /\ coordinator' = DispatchRender(coordinator)
    /\ last' = IF coordinator.pendingRenderActions # <<>>
               THEN [op |-> "dispatchActions"]
               ELSE [op |-> "renderEnd", missed |-> coordinator.queueDispatchRender.missed]
    /\ OnlyCoordinator

\* await renderer.dispatchActions(actions) resolves
DispatchActionsResolved ==
    /\ coordinator.render.pc = "dispatchActions"
    /\ \E bounds \in BOOLEAN : coordinator' = DispatchRenderBounds(coordinator, bounds)
    /\ last' = [op |-> "renderEnd", missed |-> coordinator.queueDispatchRender.missed]
    /\ OnlyCoordinator

\* await datasetsBuilderRemote.updateData(dispatch) resolves
UpdateDataResolved ==
    /\ coordinator.datasets = "updateData"
    /\ coordinator' = GetViewportDatasetsCall(coordinator)
    /\ last' = [op |-> "getViewportDatasets"]
    /\ OnlyCoordinator

\* await getViewportDatasets resolves
GetViewportDatasetsResolved ==
    /\ coordinator.datasets = "getViewportDatasets"
    /\ coordinator' = [coordinator EXCEPT !.datasets = "rendererInstance"]
    /\ last' = [op |-> "rendererInstance"]
    /\ OnlyCoordinator

\* await this.#rendererInstance() in #dispatchDatasets resolves
DatasetsRendererResolved ==
    /\ coordinator.datasets = "rendererInstance"
    /\ coordinator' = [coordinator EXCEPT !.datasets = "updateDatasets"]
    /\ last' = [op |-> "updateDatasets"]
    /\ OnlyCoordinator

\* await renderer.updateDatasets(datasets) resolves and the pass ends
UpdateDatasetsResolved ==
    /\ coordinator.datasets = "updateDatasets"
    /\ coordinator' = SettleDatasets(coordinator)
    /\ last' = [op |-> "datasetsEnd", missed |-> coordinator.queueDispatchDatasets.missed]
    /\ OnlyCoordinator

\* ---------------------------------------------------------- makeRebuilder
\* queue and cooldown are the closure's variables (cooldown: a timer is
\* set); missed counts the calls made since the cooldown began
NewRebuilder == [queue |-> FALSE, cooldown |-> FALSE, missed |-> 0]

\* a faulty rebuilder that rebuilds on every call
RebuilderCalledIgnoringCooldown(r) ==
    [rebuilder |-> [r EXCEPT !.cooldown = TRUE, !.missed = IF r.cooldown THEN @ + 1 ELSE 0],
     rebuilds |-> 1]

\* the function makeRebuilder returns: the rebuilder after the call and the
\* number of calls of rebuild it made
RebuilderCalled(r) ==
    IF ~r.cooldown
    THEN [rebuilder |-> [r EXCEPT !.cooldown = TRUE, !.missed = 0], rebuilds |-> 1]
    ELSE [rebuilder |-> [r EXCEPT !.queue = TRUE, !.missed = @ + 1], rebuilds |-> 0]

\* the callback of the timer set by schedule
CooldownElapsed(r) ==
    IF r.queue
    THEN [rebuilder |-> [r EXCEPT !.queue = FALSE, !.missed = 0], rebuilds |-> 1]
    ELSE [rebuilder |-> [r EXCEPT !.cooldown = FALSE, !.missed = 0], rebuilds |-> 0]

OnlyRebuilder ==
    UNCHANGED <<seriesByMessagePath, seriesConfigs, lastSeekTime, pendingDataDispatch,
                blocks, cursor, stalledAt, scenario, coordinator, multiplexer,
                pool, custom, remote>>

RebuilderCall ==
    /\ rebuilder.missed < MaxRebuilderCalls
    /\ rebuilder' = RebuilderCalled(rebuilder).rebuilder
    /\ last' = [op |-> "rebuilderCall", rebuilds |-> RebuilderCalled(rebuilder).rebuilds]
    /\ OnlyRebuilder

RebuilderTimer ==
    /\ rebuilder.cooldown
    /\ rebuilder' = CooldownElapsed(rebuilder).rebuilder
    /\ last' = [op |-> "rebuilderTimer", rebuilds |-> CooldownElapsed(rebuilder).rebuilds]
    /\ OnlyRebuilder


\* ------------------------------------------------------------ multiplex
\* most calls of the multiplexer explored
MaxClients == 3
\* most calls explored of one dispose function
MaxDisposals == 2

\* instances: the array of [value, numClients]; created: the calls of create
\* so far, the k-th of which returns the instance k - 1; clients: for every
\* call of the multiplexer, the instance it returned and how often the
\* dispose function it returned was called; destroyed: the arguments of the
\* calls of destroy, in order
NewMultiplexer == [instances |-> <<>>, created |-> 0, clients |-> <<>>, destroyed |-> <<>>]

\* what a Scheme returns: undefined or a number
NoChoice == [defined |-> FALSE, index |-> 0]
SchemeResults == {NoChoice} \cup {[defined |-> TRUE, index |-> i] : i \in -1..MaxClients}

\* instances.map(([, numClients]) => numClients)
Counts(instances) == [i \in 1..Len(instances) |-> instances[i].numClients]

\* a faulty lookup that takes the last instance for an index past the end
ChoiceClamped(instances, result) ==
    IF result.defined /\ result.index >= 0 /\ instances # <<>>
    THEN Min(result.index + 1, Len(instances)) ELSE 0

\* instances[scheme(counts) ?? -1]: the position of the chosen instance, 0
\* when the lookup is undefined
Choice(instances, result) ==
    IF result.defined /\ result.index >= 0 /\ result.index < Len(instances)
    THEN result.index + 1 ELSE 0

\* createInstance
CreateInstance(m) ==
    [m EXCEPT !.instances = Append(@, [value |-> m.created, numClients |-> 0]),
              !.created = @ + 1]

\* updateClients
UpdateClients(instances, t, delta) ==
    [i \in 1..Len(instances) |->
        IF instances[i].value = t
        THEN [instances[i] EXCEPT !.numClients = @ + delta] ELSE instances[i]]

IsUnused(instance) == instance.numClients = 0
InUse(instance) == instance.numClients # 0

\* removeClient: destroy is called for every instance left without clients
RemoveClient(m, t) ==
    LET updated == UpdateClients(m.instances, t, -1)
        unused == SelectSeq(updated, IsUnused)
    IN  [m EXCEPT !.instances = SelectSeq(updated, InUse),
                  !.destroyed = @ \o [i \in 1..Len(unused) |-> unused[i].value]]

\* one call of the function multiplex returns, with the scheme returning
\* `result`
MultiplexCall(result) ==
    LET m == multiplexer
        choice == Choice(m.instances, result)
        m1 == IF choice = 0 THEN CreateInstance(m) ELSE m
        instance == IF choice = 0 THEN m.created ELSE m.instances[choice].value
    IN  /\ Len(m.clients) < MaxClients
        /\ multiplexer' = [m1 EXCEPT !.instances = UpdateClients(@, instance, 1),
                                      !.clients = Append(@, [instance |-> instance,
                                                             disposals |-> 0])]
        /\ last' = [op |-> "multiplex", result |-> result, instance |-> instance]
        /\ UNCHANGED <<seriesByMessagePath, seriesConfigs, lastSeekTime, pendingDataDispatch,
                       blocks, cursor, stalledAt, scenario, coordinator, rebuilder, pool, custom, remote>>

\* one call of the dispose function returned to client c
DisposeCall(c) ==
    LET m == multiplexer
    IN  /\ m.clients[c].disposals < MaxDisposals
        /\ multiplexer' = [RemoveClient(m, m.clients[c].instance) EXCEPT
                               !.clients[c].disposals = @ + 1]
        /\ last' = [op |-> "dispose", client |-> c]
        /\ UNCHANGED <<seriesByMessagePath, seriesConfigs, lastSeekTime, pendingDataDispatch,
                       blocks, cursor, stalledAt, scenario, coordinator, rebuilder, pool, custom, remote>>

\* ------------------------------------------------------------ ObjectPool
\* largest maxCapacity explored
MaxCapacity == 2
\* most objects that exist in one run
MaxObjects == 3
\* most calls of release in one run
MaxReleases == 4
\* the constructor's default for maxCapacity
DefaultMaxCapacity == 8000

\* new ObjectPool(init, maxCapacity). An object is a number; known counts the
\* objects made so far, by init or by the caller. An entry of objects holds
\* the object and the number of the release call that put it there; releases
\* counts the calls of release and dropped holds the numbers of those that
\* left the pool as it was.
ObjectPool(maxCapacity) ==
    [objects |-> <<>>, isDisposed |-> FALSE, maxCapacity |-> maxCapacity,
     known |-> 0, releases |-> 0, dropped |-> {}]

NewPool == ObjectPool(DefaultMaxCapacity)

\* acquire: the pool after the call and the entry returned, a new object
\* when the pool is empty
PoolAcquire(p) ==
    IF p.objects # <<>>
    THEN [pool |-> [p EXCEPT !.objects = SubSeq(@, 1, Len(@) - 1)],
          ret |-> p.objects[Len(p.objects)]]
    ELSE [pool |-> [p EXCEPT !.known = @ + 1],
          ret |-> [obj |-> p.known + 1, release |-> 0]]

\* a faulty release that takes the object whatever the pool holds
PoolReleaseUnbounded(p, obj) ==
    [p EXCEPT !.objects = Append(@, [obj |-> obj, release |-> p.releases + 1]),
              !.releases = @ + 1,
              !.known = Max(@, obj)]

\* release
PoolRelease(p, obj) ==
    IF ~p.isDisposed /\ Len(p.objects) < p.maxCapacity
    THEN [p EXCEPT !.objects = Append(@, [obj |-> obj, release |-> p.releases + 1]),
                   !.releases = @ + 1,
                   !.known = Max(@, obj)]
    ELSE [p EXCEPT !.releases = @ + 1,
                   !.dropped = @ \cup {p.releases + 1},
                   !.known = Max(@, obj)]

\* dispose
PoolDispose(p) == [p EXCEPT !.isDisposed = TRUE, !.objects = <<>>]

OnlyPool ==
    UNCHANGED <<seriesByMessagePath, seriesConfigs, lastSeekTime, pendingDataDispatch,
                blocks, cursor, stalledAt, scenario, coordinator, rebuilder, multiplexer,
                custom, remote>>

Acquire ==
    /\ pool.objects # <<>> \/ pool.known < MaxObjects
    /\ pool' = PoolAcquire(pool).pool
    /\ last' = [op |-> "acquire", ret |-> PoolAcquire(pool).ret]
    /\ OnlyPool

\* release of an object made earlier or of one the caller made itself
Release(obj) ==
    /\ pool.releases < MaxReleases
    /\ pool' = PoolRelease(pool, obj)
    /\ last' = [op |-> "release", obj |-> obj]
    /\ OnlyPool

Dispose ==
    /\ ~pool.isDisposed
    /\ pool' = PoolDispose(pool)
    /\ last' = [op |-> "dispose"]
    /\ OnlyPool

\* ------------------------------------------------ CustomDatasetsBuilderImpl
\* latest receiveTime of a value item
MaxTime == 2
\* longest buffer explored
MaxCustom == 3

\* #xValues and #seriesByMessagePath of a new CustomDatasetsBuilderImpl
NewCustom ==
    [xValues |-> [current |-> <<>>, full |-> <<>>], seriesByMessagePath |-> [name \in {} |-> 0]]

\* ValueItem: a value and its receive time
ValueItems == [value : {7}, receiveTime : 1..MaxTime]
\* the items of one action, in order of receive time
ValueBatches ==
    {b \in SeqsUpTo(ValueItems, 2) :
        \A i \in 1..(Len(b) - 1) : b[i].receiveTime <= b[i + 1].receiveTime}

\* `buf[i]?.receiveTime` for a 0-based i: NoTime stands for undefined
NoTime == -1
ReceiveTimeAt(buf, i) ==
    IF i >= 0 /\ i < Len(buf) THEN buf[i + 1].receiveTime ELSE NoTime

\* the items an append-current or append-current-x pushes
RECURSIVE LaterThan(_, _)
LaterThan(items, lastFullReceiveTime) ==
    IF items = <<>> THEN <<>>
    ELSE (IF lastFullReceiveTime # NoTime /\ items[1].receiveTime <= lastFullReceiveTime
          THEN <<>> ELSE <<items[1]>>)
         \o LaterThan(SubSeq(items, 2, Len(items)), lastFullReceiveTime)

\* idx of the trimming loops: the leading entries of current not later than
\* the last full entry
RECURSIVE NotLaterPrefix(_, _)
NotLaterPrefix(current, lastFullReceiveTime) ==
    IF current = <<>> \/ current[1].receiveTime > lastFullReceiveTime THEN 0
    ELSE 1 + NotLaterPrefix(SubSeq(current, 2, Len(current)), lastFullReceiveTime)

\* current after `if (idx > 0) current.splice(0, idx)`, skipped when the
\* last receive time is undefined
TrimCurrent(current, lastFullReceiveTime) ==
    IF lastFullReceiveTime = NoTime THEN current
    ELSE SpliceFront(current, NotLaterPrefix(current, lastFullReceiveTime))

\* #applyAction, cases "append-current-x" and "append-full-x": both read
\* full[full.length]
CustomAppendCurrentX(x, items) ==
    [x EXCEPT !.current = @ \o LaterThan(items, ReceiveTimeAt(x.full, Len(x.full)))]

CustomAppendFullX(x, items) ==
    LET full == x.full \o items
    IN  [full |-> full, current |-> TrimCurrent(x.current, ReceiveTimeAt(full, Len(full)))]

\* #applyAction, case "append-current": reads full[full.length]
CustomAppendCurrent(series, items) ==
    [series EXCEPT
        !.current = @ \o LaterThan(items, ReceiveTimeAt(series.full, Len(series.full)))]

\* #applyAction, case "append-full": reads full[full.length - 1]
CustomAppendFull(series, items) ==
    LET full == series.full \o items
    IN  [series EXCEPT !.full = full,
                       !.current = TrimCurrent(@, ReceiveTimeAt(full, Len(full) - 1))]

\* #applyAction
CustomApplyAction(c, action) ==
    IF action.type = "reset-current-x" THEN [c EXCEPT !.xValues.current = <<>>]
    ELSE IF action.type = "reset-full-x" THEN [c EXCEPT !.xValues.full = <<>>]
    ELSE IF action.type = "append-current-x"
         THEN [c EXCEPT !.xValues = CustomAppendCurrentX(@, action.items)]
    ELSE IF action.type = "append-full-x"
         THEN [c EXCEPT !.xValues = CustomAppendFullX(@, action.items)]
    ELSE IF action.series \notin DOMAIN c.seriesByMessagePath THEN c
    ELSE IF action.type = "reset-current"
         THEN [c EXCEPT !.seriesByMessagePath[action.series].current = <<>>]
    ELSE IF action.type = "reset-full"
         THEN [c EXCEPT !.seriesByMessagePath[action.series].full = <<>>]
    ELSE IF action.type = "append-current"
         THEN [c EXCEPT !.seriesByMessagePath[action.series] =
                            CustomAppendCurrent(@, action.items)]
    ELSE [c EXCEPT !.seriesByMessagePath[action.series] = CustomAppendFull(@, action.items)]

\* setConfig: a series keeps its buffers when its key is unchanged
CustomSetConfig(c, configs) ==
    [c EXCEPT !.seriesByMessagePath =
        [name \in DOMAIN configs |->
            IF name \in DOMAIN c.seriesByMessagePath
               /\ c.seriesByMessagePath[name].config.key = configs[name].key
            THEN [c.seriesByMessagePath[name] EXCEPT !.config = configs[name]]
            ELSE [config |-> configs[name], current |-> <<>>, full |-> <<>>]]]

\* the configurations explored: series a, under one of two keys
CustomConfigs == {[name \in {"a"} |-> [key |-> k, messagePath |-> "a"]] : k \in {"a", "a2"}}

\* the actions explored: every type, on the x values or on series a or b
CustomActions ==
    [type : {"reset-current-x", "reset-full-x"}]
    \cup [type : {"append-current-x", "append-full-x"}, items : ValueBatches]
    \cup [type : {"reset-current", "reset-full"}, series : {"a", "b"}]
    \cup [type : {"append-current", "append-full"}, series : {"a", "b"}, items : ValueBatches]

OnlyCustom ==
    UNCHANGED <<seriesByMessagePath, seriesConfigs, lastSeekTime, pendingDataDispatch,
                blocks, cursor, stalledAt, scenario, coordinator, rebuilder, multiplexer,
                pool, remote>>

\* the buffers an action appends to stay within MaxCustom entries
CustomFits(c, action) ==
    IF "items" \notin DOMAIN action THEN TRUE
    ELSE IF "series" \notin DOMAIN action
    THEN Len(c.xValues.current) + Len(c.xValues.full) + Len(action.items) <= MaxCustom
    ELSE IF action.series \notin DOMAIN c.seriesByMessagePath THEN TRUE
    ELSE Len(c.seriesByMessagePath[action.series].current)
         + Len(c.seriesByMessagePath[action.series].full)
         + Len(action.items) <= MaxCustom

\* CustomDatasetsBuilderImpl.updateData with one action
CustomUpdateDataStep(action) ==
    /\ CustomFits(custom, action)
    /\ custom' = CustomApplyAction(custom, action)
    /\ last' = [op |-> "customUpdateData", action |-> action]
    /\ OnlyCustom

CustomSetConfigStep(configs) ==
    /\ custom' = CustomSetConfig(custom, configs)
    /\ last' = [op |-> "customSetConfig"]
    /\ OnlyCustom

\* ------------------------------------------------------- the worker remote
\* most getViewportDatasets calls and most queued actions explored
MaxCalls == 2
MaxPushed == 3

\* The builder as the main thread runs it, with its calls to the worker in
\* flight.  An action is named by a ticket, the number of its push.
\* pendingDataDispatch: the builder's queue; pushed: the pushes so far;
\* calls: per getViewportDatasets call the await it stands at; inbox: the
\* calls posted to the worker and not yet run, in order; outbox: the
\* replies not yet delivered to the main thread; sent: the actions given to
\* datasetsBuilderRemote.updateData; updateData: the actions the worker's
\* updateData was called with.
NewRemote ==
    [pendingDataDispatch |-> <<>>, pushed |-> 0, calls |-> <<>>,
     inbox |-> <<>>, outbox |-> <<>>, sent |-> <<>>, updateData |-> <<>>]

\* this.#pendingDataDispatch.push, n times in one handlePlayerState
RemotePush(r, n) ==
    [r EXCEPT !.pendingDataDispatch = @ \o [i \in 1..n |-> r.pushed + i],
              !.pushed = @ + n]

\* a faulty getViewportDatasets that sends the queue and keeps it
RemoteGetViewportDatasetsKeepingQueue(r) ==
    LET call == Len(r.calls) + 1
    IN  IF r.pendingDataDispatch # <<>>
        THEN [r EXCEPT !.sent = @ \o r.pendingDataDispatch,
                       !.inbox = Append(@, [type |-> "updateData", call |-> call,
                                            actions |-> r.pendingDataDispatch]),
                       !.calls = Append(@, "updateData")]
        ELSE [r EXCEPT !.inbox = Append(@, [type |-> "getViewportDatasets", call |-> call,
                                            actions |-> <<>>]),
                       !.calls = Append(@, "getViewportDatasets")]

\* getViewportDatasets up to its first await: a non-empty queue is taken,
\* replaced by a new array and posted with updateData; with an empty queue
\* getViewportDatasets is posted at once
RemoteGetViewportDatasets(r) ==
    LET call == Len(r.calls) + 1
    IN  IF r.pendingDataDispatch # <<>>
        THEN [r EXCEPT !.pendingDataDispatch = <<>>,
                       !.sent = @ \o r.pendingDataDispatch,
                       !.inbox = Append(@, [type |-> "updateData", call |-> call,
                                            actions |-> r.pendingDataDispatch]),
                       !.calls = Append(@, "updateData")]
        ELSE [r EXCEPT !.inbox = Append(@, [type |-> "getViewportDatasets", call |-> call,
                                            actions |-> <<>>]),
                       !.calls = Append(@, "getViewportDatasets")]

\* the worker runs the oldest posted call and replies
RemoteWorkerRun(r) ==
    LET msg == Head(r.inbox)
    IN  [r EXCEPT !.inbox = Tail(@),
                  !.updateData = @ \o msg.actions,
                  !.outbox = Append(@, msg.call)]

\* the oldest reply reaches the main thread: after updateData the call
\* posts getViewportDatasets, after getViewportDatasets it returns
RemoteResume(r) ==
    LET call == Head(r.outbox)
    IN  IF r.calls[call] = "updateData"
        THEN [r EXCEPT !.outbox = Tail(@),
                       !.inbox = Append(@, [type |-> "getViewportDatasets", call |-> call,
                                            actions |-> <<>>]),
                       !.calls[call] = "getViewportDatasets"]
        ELSE [r EXCEPT !.outbox = Tail(@), !.calls[call] = "returned"]

OnlyRemote ==
    UNCHANGED <<seriesByMessagePath, seriesConfigs, lastSeekTime, pendingDataDispatch,
                blocks, cursor, stalledAt, scenario, coordinator, rebuilder, multiplexer,
                pool, custom>>

\* handlePlayerState pushing n actions
RemoteHandlePlayerStateStep(n) ==
    /\ remote.pushed + n <= MaxPushed
    /\ remote' = RemotePush(remote, n)
    /\ last' = [op |-> "handlePlayerState", pushed |-> n]
    /\ OnlyRemote

RemoteGetViewportDatasetsStep ==
    /\ Len(remote.calls) < MaxCalls
    /\ remote' = RemoteGetViewportDatasets(remote)
    /\ last' = [op |-> "getViewportDatasets"]
    /\ OnlyRemote

RemoteWorkerRunStep ==
    /\ remote.inbox # <<>>
    /\ remote' = RemoteWorkerRun(remote)
    /\ last' = [op |-> "worker"]
    /\ OnlyRemote

RemoteResumeStep ==
    /\ remote.outbox # <<>>
    /\ remote' = RemoteResume(remote)
    /\ last' = [op |-> "resume"]
    /\ OnlyRemote

\* ---------------------------------------------------------------- steps
NoOp == [op |-> "init"]
EmptyStore == [name \in {} |-> 0]

Init ==
    /\ seriesByMessagePath = EmptyStore
    /\ seriesConfigs = <<>>
    /\ lastSeekTime = 0
    /\ pendingDataDispatch = <<>>
    /\ blocks = <<>>
    /\ cursor = NewCursor
    /\ stalledAt = -1
    /\ scenario = 0
    /\ coordinator = NewCoordinator
    /\ rebuilder = NewRebuilder
    /\ pool = NewPool
    /\ custom = NewCustom
    /\ remote = NewRemote
    /\ multiplexer = NewMultiplexer
    /\ last = NoOp

\* TimeseriesDatasetsBuilder.setConfig and the Impl.setConfig it sends
SetConfig(paths) ==
    /\ seriesConfigs' = BuilderSetConfig(seriesConfigs, paths)
    /\ seriesByMessagePath' = ImplSetConfig(seriesByMessagePath, ImplConfigs(seriesConfigs'))
    /\ last' = [op |-> "setConfig"]
    /\ scenario' = 0
    /\ UNCHANGED <<pool, custom, remote, coordinator, rebuilder, multiplexer, lastSeekTime, pendingDataDispatch, blocks, cursor, stalledAt>>

\* the builder before it has seen any player state, with the one series of
\* the "data as it arrives" run configured
FreshSingleSeries ==
    /\ Len(seriesConfigs) = 1
    /\ seriesConfigs[1].timestampMethod = "receiveTime"
    /\ seriesConfigs[1].blockCursor = NewCursor
    /\ pendingDataDispatch = <<>>
    /\ seriesByMessagePath[seriesConfigs[1].messagePath].full = <<>>
    /\ seriesByMessagePath[seriesConfigs[1].messagePath].current = <<>>

\* TimeseriesDatasetsBuilder.handlePlayerState; without activeData it returns
\* at once, without a message cache the block loop is skipped
HandlePlayerState(hasActive, seekTime, msgs, hasCache, blks) ==
    /\ Len(pendingDataDispatch) <= MaxPending
    /\ blocks' = IF hasActive /\ hasCache THEN blks ELSE blocks
    /\ IF ~hasActive
       THEN /\ UNCHANGED <<pool, custom, remote, coordinator, rebuilder, multiplexer, lastSeekTime, pendingDataDispatch, seriesConfigs>>
            /\ last' = [op |-> "handlePlayerState", active |-> FALSE, cache |-> FALSE]
       ELSE LET didSeek == seekTime # lastSeekTime
                live == IF msgs # <<>> THEN LiveActions(seriesConfigs, didSeek, msgs) ELSE <<>>
                blk  == IF hasCache THEN AllBlockActions(seriesConfigs, blks) ELSE <<>>
            IN  /\ lastSeekTime' = seekTime
                /\ pendingDataDispatch' = pendingDataDispatch \o live \o blk
                /\ seriesConfigs' = IF hasCache THEN DrainedConfigs(seriesConfigs, blks)
                                    ELSE seriesConfigs
                /\ last' = [op |-> "handlePlayerState", active |-> TRUE, cache |-> hasCache]
    /\ scenario' =
         IF hasActive /\ hasCache /\ msgs = <<>> /\ scenario = 0 /\ FreshSingleSeries
            /\ blks = <<"P1", NoTopic>> THEN 1
         ELSE IF hasActive /\ hasCache /\ msgs = <<>> /\ scenario = 1
            /\ blks = <<"P1", "P2">> THEN 2
         ELSE 0
    /\ UNCHANGED <<pool, custom, remote, coordinator, rebuilder, multiplexer, seriesByMessagePath, cursor, stalledAt>>

\* the render datasets of the series in configuration order
Datasets(store, cfgs, vp) ==
    [i \in 1..Len(cfgs) |-> ViewportDataset(store[cfgs[i].messagePath], vp).points]

\* TimeseriesDatasetsBuilder.getViewportDatasets: send the pending actions
\* to updateData, then Impl.getViewportDatasets
GetViewportDatasets(vp) ==
    LET store == UpdateData(seriesByMessagePath, pendingDataDispatch)
    IN  /\ pendingDataDispatch' = <<>>
        /\ seriesByMessagePath' = AfterViewportDatasets(store, vp)
        /\ last' = [op |-> "getViewportDatasets", viewport |-> vp,
                    flushed |-> Len(pendingDataDispatch),
                    datasets |-> Datasets(store, seriesConfigs, vp)]
        /\ scenario' = IF scenario = 2 /\ ~vp.hasX THEN 3 ELSE 0
        /\ UNCHANGED <<pool, custom, remote, coordinator, rebuilder, multiplexer, seriesConfigs, lastSeekTime, blocks, cursor, stalledAt>>

\* TimeseriesDatasetsBuilder.getCsvData: the call goes straight to
\* Impl.getCsvData; the pending actions stay where they are
BuilderGetCsvData ==
    /\ last' = [op |-> "builderGetCsvData", csv |-> GetCsvData(seriesByMessagePath)]
    /\ scenario' = 0
    /\ UNCHANGED <<pool, custom, remote, coordinator, rebuilder, multiplexer, seriesByMessagePath, seriesConfigs, lastSeekTime, pendingDataDispatch, blocks, cursor, stalledAt>>

\* -------------------------------------------------------- specifications
\* The builder fed with player states that carry live messages and seeks
\* but no message cache.
NextLive ==
    \/ \E paths \in PathChoices : SetConfig(paths)
    \/ HandlePlayerState(FALSE, 0, <<>>, FALSE, <<>>)
    \/ \E seekTime \in 0..MaxSeek, msgs \in LiveBatches :
            HandlePlayerState(TRUE, seekTime, msgs, FALSE, <<>>)
    \/ \E vp \in Viewports : GetViewportDatasets(vp)

SpecLive == Init /\ [][NextLive]_vars

\* The same builder with its CSV export.
NextExport == NextLive \/ BuilderGetCsvData

SpecExport == Init /\ [][NextExport]_vars

\* The builder fed with player states that carry a message cache and no
\* live messages, one series configured.
NextBlocks ==
    \/ \E paths \in {p \in PathChoices : Len(p) <= 1} : SetConfig(paths)
    \/ \E blks \in BuilderBlockArrays : HandlePlayerState(TRUE, 0, <<>>, TRUE, blks)
    \/ \E vp \in Viewports : GetViewportDatasets(vp)

SpecBlocks == Init /\ [][NextBlocks]_vars

\* The same builder while the message cache loads: every block of the array
\* holds the topic or is not loaded yet, and the viewport is unbounded.
NextLoading ==
    \/ \E paths \in {p \in PathChoices : Len(p) <= 1} : SetConfig(paths)
    \/ \E blks \in LoadingBlockArrays : HandlePlayerState(TRUE, 0, <<>>, TRUE, blks)
    \/ \E vp \in {v \in Viewports : ~v.hasX} : GetViewportDatasets(vp)

SpecLoading == Init /\ [][NextLoading]_vars

\* config.paths in which the message path "a" may appear twice, once per
\* timestamp method
RepeatedPathChoices ==
    LET P(m) == [value |-> "a", timestampMethod |-> m]
    IN  {<<>>} \cup {<<P(m)>> : m \in TimestampMethods}
        \cup {<<P(m), P(n)>> : m, n \in TimestampMethods}

\* The loading builder with such configurations.
NextPaths ==
    \/ \E paths \in RepeatedPathChoices : SetConfig(paths)
    \/ \E blks \in LoadingBlockArrays : HandlePlayerState(TRUE, 0, <<>>, TRUE, blks)
    \/ \E vp \in {v \in Viewports : ~v.hasX} : GetViewportDatasets(vp)

SpecPaths == Init /\ [][NextPaths]_vars


\* The Impl driven directly through setConfig and updateData, one action
\* per updateData call, series "a" configured or not.
ImplConfigChoices ==
    {EmptyStore} \cup {[name \in {"a"} |-> MakeConfig("a", m)] : m \in TimestampMethods}

ImplSetConfigStep(configs) ==
    /\ seriesByMessagePath' = ImplSetConfig(seriesByMessagePath, configs)
    /\ last' = [op |-> "setConfig"]
    /\ UNCHANGED <<pool, custom, remote, coordinator, rebuilder, multiplexer, seriesConfigs, lastSeekTime, pendingDataDispatch, blocks, cursor,
                   stalledAt, scenario>>

\* updateData([action]); the explored full buffers stay within MaxFull
UpdateDataStep(action) ==
    /\ action.type = "append-full" /\ action.series \in DOMAIN seriesByMessagePath
         => Len(seriesByMessagePath[action.series].full) + Len(action.items) <= MaxFull
    /\ seriesByMessagePath' = UpdateData(seriesByMessagePath, <<action>>)
    /\ last' = [op |-> action.type, series |-> action.series,
                prevCurrentLen |-> IF action.series \in DOMAIN seriesByMessagePath
                                   THEN Len(seriesByMessagePath[action.series].current)
                                   ELSE 0]
    /\ UNCHANGED <<pool, custom, remote, coordinator, rebuilder, multiplexer, seriesConfigs, lastSeekTime, pendingDataDispatch, blocks, cursor,
                   stalledAt, scenario>>

ItemBatches == SeqsUpTo(PlainItems, MaxBatch)

NextImpl ==
    \/ \E configs \in ImplConfigChoices : ImplSetConfigStep(configs)
    \/ \E type \in {"reset-current", "reset-full"}, s \in SeriesNames :
            UpdateDataStep(Action(type, s, <<>>))
    \/ \E type \in {"append-current", "append-full"}, s \in SeriesNames,
          items \in ItemBatches :
            UpdateDataStep(Action(type, s, items))

SpecImpl == Init /\ [][NextImpl]_vars

\* The Impl driven through setConfig and updateData with batches of several
\* actions.  Series "a" is configured or not, series "b" never is.
ItemLow == [x |-> 0, y |-> 1]
ItemHigh == [x |-> 1, y |-> 0]
\* items arrays: one item, two in ascending x, two in descending x
Chunks == {<<ItemLow>>, <<ItemHigh>>, <<ItemLow, ItemHigh>>, <<ItemHigh, ItemLow>>}

ActionsOn(s) ==
    {Action(type, s, <<>>) : type \in {"reset-current", "reset-full"}}
    \cup {Action(type, s, items) : type \in {"append-current", "append-full"}, items \in Chunks}

\* batches of one or two actions, and batches with an action for "b" between
\* two appends for "a"
Batches ==
    LET acts == ActionsOn("a") \cup {Action("reset-full", "b", <<>>),
                                     Action("append-full", "b", <<ItemLow>>)}
    IN  {<<a1>> : a1 \in acts} \cup {<<a1, a2>> : a1 \in acts, a2 \in acts}
        \cup {<<Action("append-full", "a", <<ItemLow>>), u,
               Action("append-current", "a", <<ItemHigh>>)>> : u \in ActionsOn("b")}

\* updateData(batch); the explored full buffers stay within MaxFull
UpdateDataBatchStep(batch) ==
    LET store == UpdateData(seriesByMessagePath, batch)
    IN  /\ \A s \in DOMAIN store : Len(store[s].full) <= MaxFull
        /\ seriesByMessagePath' = store
        /\ last' = [op |-> "updateData", batch |-> batch]
        /\ UNCHANGED <<pool, custom, remote, coordinator, rebuilder, multiplexer, seriesConfigs, lastSeekTime, pendingDataDispatch, blocks, cursor,
                       stalledAt, scenario>>

NextStore ==
    \/ \E configs \in ImplConfigChoices : ImplSetConfigStep(configs)
    \/ \E batch \in Batches : UpdateDataBatchStep(batch)

SpecStore == Init /\ [][NextStore]_vars

\* A BlockTopicCursor driven call by call.
CursorNextWillReset(blks) ==
    /\ blocks' = blks
    /\ last' = [op |-> "nextWillReset", answer |-> NextWillReset(cursor, blks)]
    /\ UNCHANGED <<pool, custom, remote, coordinator, rebuilder, multiplexer, seriesByMessagePath, seriesConfigs, lastSeekTime, pendingDataDispatch,
                   cursor, stalledAt, scenario>>

CursorNext(blks) ==
    LET r == Next_(cursor, blks)
        readIdx == ResetIfChanged(cursor, blks).nextBlockIdx
    IN  /\ blocks' = blks
        /\ cursor' = r.cursor
        /\ stalledAt' = IF readIdx < Len(blks) /\ blks[readIdx + 1] = Absent
                        THEN readIdx ELSE -1
        /\ last' = [op |-> "next", ret |-> r.ret, prev |-> cursor, readIdx |-> readIdx,
                    stalledBefore |-> stalledAt,
                    asked |-> last.op = "nextWillReset" /\ blocks = blks,
                    answer |-> last.op = "nextWillReset" /\ last.answer]
        /\ UNCHANGED <<pool, custom, remote, coordinator, rebuilder, multiplexer, seriesByMessagePath, seriesConfigs, lastSeekTime,
                       pendingDataDispatch, scenario>>

NextCursor ==
    \/ \E blks \in BlockArrays : CursorNextWillReset(blks)
    \/ \E blks \in BlockArrays : CursorNext(blks)

SpecCursor == Init /\ [][NextCursor]_vars


\* The Impl asked for render datasets and csv data.  Series "a" is enabled
\* or not, drawn as a line or as points; series "b" is absent, enabled or
\* disabled.  Every updateData call replaces the buffers of one series.
ItemLater == [x |-> 2, y |-> 1]
RenderFulls == {<<>>, <<ItemLow>>, <<ItemLow, ItemLow, ItemHigh>>}
RenderCurrents == {<<>>, <<ItemLater>>}

RenderConfigsOfA ==
    {SeriesConfig("a", "receiveTime", TRUE, TRUE, 1), SeriesConfig("a", "receiveTime", TRUE, TRUE, 2),
     SeriesConfig("a", "receiveTime", TRUE, FALSE, 2), SeriesConfig("a", "receiveTime", FALSE, TRUE, 1)}

RenderConfigChoices ==
    {[name \in {"a"} |-> ca] : ca \in RenderConfigsOfA}
    \cup {[name \in {"a", "b"} |->
              IF name = "a" THEN ca ELSE SeriesConfig("b", "receiveTime", e, TRUE, 1)] :
                ca \in RenderConfigsOfA, e \in BOOLEAN}

\* a batch that replaces the buffers of series s
Refill(s, full, current) ==
    <<Action("reset-full", s, <<>>), Action("reset-current", s, <<>>),
      Action("append-full", s, full), Action("append-current", s, current)>>

RefillStep(batch) ==
    /\ seriesByMessagePath' = UpdateData(seriesByMessagePath, batch)
    /\ last' = [op |-> "updateData"]
    /\ UNCHANGED <<pool, custom, remote, coordinator, rebuilder, multiplexer, seriesConfigs, lastSeekTime, pendingDataDispatch, blocks, cursor,
                   stalledAt, scenario>>

\* Impl.getViewportDatasets(viewport)
ImplGetViewportDatasetsStep(vp) ==
    /\ seriesByMessagePath' = AfterViewportDatasets(seriesByMessagePath, vp)
    /\ last' = [op |-> "getViewportDatasets", viewport |-> vp,
                datasets |-> ImplDatasets(seriesByMessagePath, vp)]
    /\ UNCHANGED <<pool, custom, remote, coordinator, rebuilder, multiplexer, seriesConfigs, lastSeekTime, pendingDataDispatch, blocks, cursor,
                   stalledAt, scenario>>

\* Impl.getCsvData()
GetCsvDataStep ==
    /\ last' = [op |-> "getCsvData", csv |-> GetCsvData(seriesByMessagePath)]
    /\ UNCHANGED <<pool, custom, remote, coordinator, rebuilder, multiplexer, seriesByMessagePath, seriesConfigs, lastSeekTime, pendingDataDispatch,
                   blocks, cursor, stalledAt, scenario>>

NextRender ==
    \/ \E configs \in RenderConfigChoices : ImplSetConfigStep(configs)
    \/ \E full \in RenderFulls, current \in RenderCurrents :
            RefillStep(Refill("a", full, current))
    \/ \E full \in {<<>>, <<ItemLow>>} : RefillStep(Refill("b", full, <<>>))
    \/ \E vp \in Viewports : ImplGetViewportDatasetsStep(vp)
    \/ GetCsvDataStep

SpecRender == Init /\ [][NextRender]_vars

\* The two downsamplers applied once to an array of up to MaxN points, with
\* NaN coordinates and labels among them, under a view one or two pixels
\* wide.
MaxN == 4
\* the datums an interval adds to the output: first, min, max, last
IndicesPerInterval == 4

\* the NaN entry of getViewportDatasets, a point whose y alone is NaN, two
\* plain points a pixel apart and two labelled points
Points ==
    {[x |-> NaN, y |-> NaN, label |-> NoLabel], [x |-> 0, y |-> NaN, label |-> NoLabel],
     [x |-> 0, y |-> 0, label |-> NoLabel], [x |-> 1, y |-> 1, label |-> NoLabel],
     [x |-> 0, y |-> 0, label |-> "A"], [x |-> 0, y |-> 1, label |-> "B"]}

\* the datum at position i of the iterated dataset carries index i - 1
Indexed(s) ==
    [i \in 1..Len(s) |-> [x |-> s[i].x, y |-> s[i].y, label |-> s[i].label, index |-> i - 1]]

PointArrays == {Indexed(s) : s \in SeqsUpTo(Points, MaxN)}

\* downsampleTimeseries assumes its input sorted by x
IsSorted(s) ==
    \A i \in 1..Len(s), j \in 1..Len(s) :
        i < j /\ s[i].x # NaN /\ s[j].x # NaN => s[i].x <= s[j].x

SortedPointArrays == {s \in PointArrays : IsSorted(s)}

DownsampleViews ==
    {[width |-> w, height |-> 1, xmin |-> 0, xmax |-> 1, ymin |-> 0, ymax |-> 1] : w \in {1, 2}}

\* the call's arguments are chosen at the start
InitDownsample ==
    /\ seriesByMessagePath = EmptyStore
    /\ seriesConfigs = <<>>
    /\ lastSeekTime = 0
    /\ pendingDataDispatch = <<>>
    /\ blocks = <<>>
    /\ cursor = NewCursor
    /\ stalledAt = -1
    /\ scenario = 0
    /\ coordinator = NewCoordinator
    /\ rebuilder = NewRebuilder
    /\ pool = NewPool
    /\ custom = NewCustom
    /\ remote = NewRemote
    /\ multiplexer = NewMultiplexer
    /\ \E items \in PointArrays, view \in DownsampleViews :
          last = [op |-> "call", items |-> items, view |-> view]

DownsampleTimeseriesStep(items, view) ==
    /\ last.op = "call" /\ IsSorted(items)
    /\ last' = [op |-> "downsampleTimeseries", items |-> items, view |-> view,
                indices |-> DownsampleTimeseries(items, view)]
    /\ UNCHANGED <<pool, custom, remote, coordinator, rebuilder, multiplexer, seriesByMessagePath, seriesConfigs, lastSeekTime, pendingDataDispatch,
                   blocks, cursor, stalledAt, scenario>>

DownsampleScatterStep(items, view) ==
    /\ last.op = "call"
    /\ last' = [op |-> "downsampleScatter", items |-> items, view |-> view,
                indices |-> DownsampleScatter(items, view)]
    /\ UNCHANGED <<pool, custom, remote, coordinator, rebuilder, multiplexer, seriesByMessagePath, seriesConfigs, lastSeekTime, pendingDataDispatch,
                   blocks, cursor, stalledAt, scenario>>

NextDownsample ==
    \/ DownsampleTimeseriesStep(last.items, last.view)
    \/ DownsampleScatterStep(last.items, last.view)

SpecDownsample == InitDownsample /\ [][NextDownsample]_vars

\* a call whose arguments are one of the given <<items, view>> pairs
InitCall(inputs) ==
    /\ seriesByMessagePath = EmptyStore
    /\ seriesConfigs = <<>>
    /\ lastSeekTime = 0
    /\ pendingDataDispatch = <<>>
    /\ blocks = <<>>
    /\ cursor = NewCursor
    /\ stalledAt = -1
    /\ scenario = 0
    /\ coordinator = NewCoordinator
    /\ rebuilder = NewRebuilder
    /\ pool = NewPool
    /\ custom = NewCustom
    /\ remote = NewRemote
    /\ multiplexer = NewMultiplexer
    /\ \E input \in inputs : last = [op |-> "call", items |-> input[1], view |-> input[2]]

\* The timeseries downsampler applied once to an array of numeric points
\* sorted by x, under a view of 2 x 2 pixels over x in [2, 4]: its buffer
\* window is [1, 5], so x = 0 lies before it and x = 6 past it.  One more
\* input is (0,0), (1,100), (2,0) in a single pixel column.
WindowView == [width |-> 2, height |-> 2, xmin |-> 2, xmax |-> 4, ymin |-> 0, ymax |-> 2]
WindowPoints == [x : {0, 2, 3, 6}, y : {0, 2}]

\* the datum at position i carries index i - 1
IndexedXY(s) == [i \in 1..Len(s) |-> [x |-> s[i].x, y |-> s[i].y, index |-> i - 1]]

WindowArrays == {s \in {IndexedXY(t) : t \in SeqsUpTo(WindowPoints, MaxN)} : IsSorted(s)}

ColumnView == [width |-> 1, height |-> 2, xmin |-> 0, xmax |-> 4, ymin |-> 0, ymax |-> 100]
ColumnArray == IndexedXY(<<[x |-> 0, y |-> 0], [x |-> 1, y |-> 100], [x |-> 2, y |-> 0]>>)

WindowInputs == {<<s, WindowView>> : s \in WindowArrays} \cup {<<ColumnArray, ColumnView>>}

NextWindow == DownsampleTimeseriesStep(last.items, last.view)

SpecWindow == InitCall(WindowInputs) /\ [][NextWindow]_vars

\* Both downsamplers applied once to an array of numeric points under a view
\* whose width or height is 0.
FlatViews ==
    {[width |-> w, height |-> h, xmin |-> 0, xmax |-> 1, ymin |-> 0, ymax |-> 1] :
        w \in {0, 2}, h \in {0, 2}}
    \ {[width |-> 2, height |-> 2, xmin |-> 0, xmax |-> 1, ymin |-> 0, ymax |-> 1]}

FlatArrays == {IndexedXY(t) : t \in SeqsUpTo([x : {0, 1}, y : {0, 1}], MaxN)}

FlatInputs == {<<s, v>> : s \in FlatArrays, v \in FlatViews}

SpecFlat == InitCall(FlatInputs) /\ [][NextDownsample]_vars

\* The scatter downsampler applied once to an array of numeric points, some
\* with x = 2 outside the bounds [0, 1], under a view one or two pixels wide.
ScatterArrays == {IndexedXY(t) : t \in SeqsUpTo([x : {0, 1, 2}, y : {0, 1}], MaxN)}

ScatterInputs == {<<s, v>> : s \in ScatterArrays, v \in DownsampleViews}

NextScatter == DownsampleScatterStep(last.items, last.view)

SpecScatter == InitCall(ScatterInputs) /\ [][NextScatter]_vars

\* The multiplexer called by up to MaxClients clients under any scheme, each
\* dispose function called any number of times up to MaxDisposals.
NextMultiplex ==
    \/ \E result \in SchemeResults : MultiplexCall(result)
    \/ \E c \in 1..Len(multiplexer.clients) : DisposeCall(c)

SpecMultiplex == Init /\ [][NextMultiplex]_vars

\* The coordinator's public methods called up to MaxEvents times in any
\* order while the passes they queue run, each await resolving at any time.
CoordinatorCalls ==
    \/ \E time \in BOOLEAN, range \in BOOLEAN, data \in BOOLEAN :
          CoordinatorHandlePlayerState(time, range, data)
    \/ HandleConfig
    \/ SetTimeseriesBounds
    \/ ResetBounds
    \/ SetSize
    \/ AddInteractionEvent

RenderProgress == RenderRendererResolved \/ DispatchActionsResolved

DatasetsProgress ==
    \/ UpdateDataResolved
    \/ GetViewportDatasetsResolved
    \/ DatasetsRendererResolved
    \/ UpdateDatasetsResolved

NextCoordinator == CoordinatorCalls \/ RenderProgress \/ DatasetsProgress

\* The workers answer every request: a pass that waits for an answer goes on.
SpecCoordinator ==
    /\ Init
    /\ [][NextCoordinator]_vars
    /\ WF_vars(RenderProgress)
    /\ WF_vars(DatasetsProgress)

\* The debounced functions of a coordinator and a rebuilder, called at any
\* time.
NextDebounced == NextCoordinator \/ RebuilderCall \/ RebuilderTimer

SpecDebounced == Init /\ [][NextDebounced]_vars

\* An ObjectPool of any capacity up to MaxCapacity under any sequence of
\* acquire, release and dispose.
InitPool ==
    /\ seriesByMessagePath = EmptyStore
    /\ seriesConfigs = <<>>
    /\ lastSeekTime = 0
    /\ pendingDataDispatch = <<>>
    /\ blocks = <<>>
    /\ cursor = NewCursor
    /\ stalledAt = -1
    /\ scenario = 0
    /\ coordinator = NewCoordinator
    /\ rebuilder = NewRebuilder
    /\ pool \in {ObjectPool(maxCapacity) : maxCapacity \in 0..MaxCapacity}
    /\ custom = NewCustom
    /\ remote = NewRemote
    /\ multiplexer = NewMultiplexer
    /\ last = NoOp

NextPool ==
    \/ Acquire
    \/ \E obj \in 1..Min(pool.known + 1, MaxObjects) : Release(obj)
    \/ Dispose

SpecPool == InitPool /\ [][NextPool]_vars

\* The custom-x-axis Impl under any sequence of setConfig and single-action
\* updateData calls.
NextCustom ==
    \/ \E configs \in CustomConfigs : CustomSetConfigStep(configs)
    \/ \E action \in CustomActions : CustomUpdateDataStep(action)

SpecCustom == Init /\ [][NextCustom]_vars

\* The builder's queue and its calls to the worker, interleaved.
NextRemote ==
    \/ \E n \in 1..2 : RemoteHandlePlayerStateStep(n)
    \/ RemoteGetViewportDatasetsStep
    \/ RemoteWorkerRunStep
    \/ RemoteResumeStep

SpecRemote == Init /\ [][NextRemote]_vars

\* ------------------------------------------------------------ properties
Store == seriesByMessagePath

\* the actions a handlePlayerState step added to the queue
Queued == SubSeq(pendingDataDispatch', Len(pendingDataDispatch) + 1, Len(pendingDataDispatch'))

\* the actions of a sequence that name one series
ForSeries(actions, s) == SelectSeq(actions, LAMBDA a : a.series = s)

\* one series after its actions were applied one by one, first to last
RECURSIVE InOrder(_, _)
InOrder(series, actions) ==
    IF actions = <<>> THEN series
    ELSE LET a == actions[1]
             next == CASE a.type = "reset-current"  -> ResetCurrent(series)
                       [] a.type = "reset-full"     -> ResetFull(series)
                       [] a.type = "append-current" -> AppendCurrent(series, a.items)
                       [] a.type = "append-full"    -> AppendFull(series, a.items)
         IN  InOrder(next, SubSeq(actions, 2, Len(actions)))

\* C1: after every append-current the current buffer of every series holds
\* at most MAX_CURRENT_DATUMS points, whatever the batch sizes.
C1_CurrentWithinCap ==
    \A s \in DOMAIN Store : Len(Store[s].current) <= MAX_CURRENT_DATUMS

\* C2: in every state reached through setConfig and updateData no point of a
\* series' current buffer has x <= the x of the last point of its full buffer.
C2_CurrentPastFull ==
    \A s \in DOMAIN Store :
        HasLastX(Store[s].full) =>
            \A i \in 1..Len(Store[s].current) : Store[s].current[i].x > LastX(Store[s].full)

\* C3: after an append-full on a series every entry of current with x <= the
\* x of full's last point is gone, and current is not longer than before.
C3_AppendFullTrimsCurrent ==
    (last.op = "append-full" /\ last.series \in DOMAIN Store) =>
        LET series == Store[last.series]
        IN  /\ HasLastX(series.full) =>
                 \A i \in 1..Len(series.current) : series.current[i].x > LastX(series.full)
            /\ Len(series.current) <= last.prevCurrentLen

\* C4: when the blocks array is shorter than the cursor's next index, the
\* handlePlayerState step restarts the cursor and queues a reset-full for
\* the series.
C4_ShorterArrayResets ==
    [][(last'.op = "handlePlayerState" /\ last'.cache) =>
        \A i \in 1..Len(seriesConfigs) :
            seriesConfigs[i].blockCursor.nextBlockIdx > Len(blocks') =>
                /\ seriesConfigs'[i].blockCursor.nextBlockIdx <= Len(blocks')
                /\ \E k \in 1..Len(Queued) :
                      Queued[k] = Action("reset-full", seriesConfigs[i].messagePath, <<>>)]_vars

\* C5: after the block arrays [B0, {}] and then [B0, B1] have been handled,
\* getViewportDatasets with an unbounded viewport returns one dataset with
\* the points (0,0), (1,1), and the cursor's index is 2.
C5_DataAsItArrives ==
    scenario = 3 =>
        /\ last.datasets = <<  <<[x |-> 0, y |-> 0], [x |-> 1, y |-> 1]>>  >>
        /\ seriesConfigs[1].blockCursor.nextBlockIdx = 2

\* C6: a next() call moves the index up only by exactly 1 and only when it
\* returns an array; a call that returns undefined leaves the index alone.
C6_IndexMovesOnlyWithBatch ==
    last.op = "next" =>
        /\ cursor.nextBlockIdx > last.prev.nextBlockIdx =>
              /\ cursor.nextBlockIdx = last.prev.nextBlockIdx + 1
              /\ last.ret # Undefined
        /\ last.ret = Undefined => cursor.nextBlockIdx = last.prev.nextBlockIdx

\* C7: nextWillReset(blocks) answers true exactly when the next(blocks) call
\* that follows it on the same array restarts: it records a new first-block
\* reference, reads at index 0 and returns the first block's array for the
\* topic; when it answers false the call reads at the cursor's index.
C7_WillResetTellsRestart ==
    (last.op = "next" /\ last.asked) =>
        /\ last.answer <=> cursor.firstBlockRef # last.prev.firstBlockRef
        /\ last.answer =>
              /\ last.readIdx = 0
              /\ last.ret = FirstBlockTopic(blocks)
        /\ ~last.answer => last.readIdx = last.prev.nextBlockIdx

\* after [B0, B1] were read, B0's array is another object: the answer is
\* true and next() returns the array of block 0
C7_Witness ==
    /\ last.op = "next" /\ last.asked /\ last.answer
    /\ last.prev = [firstBlockRef |-> "P1", nextBlockIdx |-> 2]
    /\ blocks = <<"P3", "P2">>
    /\ last.ret = "P3"

\* C8 as stated: if the block at the cursor's index is absent, next() returns
\* undefined and leaves the index; that block is what the first next() call
\* after it is loaded returns.
C8_AbsentBlockReturnedNext ==
    last.op = "next" =>
        /\ (last.prev.nextBlockIdx < Len(blocks)
            /\ blocks[last.prev.nextBlockIdx + 1] = Absent) =>
              /\ last.ret = Undefined
              /\ cursor.nextBlockIdx = last.prev.nextBlockIdx
        /\ (last.stalledBefore >= 0 /\ last.stalledBefore < Len(blocks)
            /\ blocks[last.stalledBefore + 1] # Absent) =>
              last.ret = MessagesByTopic(blocks[last.stalledBefore + 1])

\* C8, amended: if the block at the index a next() call reads is absent, the
\* call returns undefined and the index stays at that block; the first call
\* after the block is loaded reads that block and returns its array for the
\* topic, unless that call resets the cursor.
C8_AbsentBlockNotPassed ==
    last.op = "next" =>
        /\ (last.readIdx < Len(blocks) /\ blocks[last.readIdx + 1] = Absent) =>
              /\ last.ret = Undefined
              /\ cursor.nextBlockIdx = last.readIdx
        /\ (last.stalledBefore >= 0 /\ last.stalledBefore < Len(blocks)
            /\ blocks[last.stalledBefore + 1] # Absent
            /\ cursor.firstBlockRef = last.prev.firstBlockRef) =>
              /\ last.readIdx = last.stalledBefore
              /\ last.ret = MessagesByTopic(blocks[last.stalledBefore + 1])
              /\ cursor.nextBlockIdx = last.stalledBefore + 1

\* a call that finds block 1 loaded after an earlier call found it absent
C8_Witness ==
    /\ last.op = "next"
    /\ last.stalledBefore = 1
    /\ cursor.firstBlockRef = last.prev.firstBlockRef
    /\ Len(blocks) = 2 /\ blocks[2] \in PayloadRefs
    /\ last.ret = blocks[2]

\* C9: a handlePlayerState step that sees another lastSeekTime than the one
\* before queues, for every configured series, a reset-current ahead of the
\* series' append-current actions.
C9_SeekQueuesResetCurrent ==
    [][(last'.op = "handlePlayerState" /\ last'.active /\ lastSeekTime' # lastSeekTime) =>
        \A i \in 1..Len(seriesConfigs) :
            \E k \in 1..Len(Queued) :
                /\ Queued[k] = Action("reset-current", seriesConfigs[i].messagePath, <<>>)
                /\ \A j \in 1..Len(Queued) :
                      (Queued[j].type = "append-current"
                       /\ Queued[j].series = seriesConfigs[i].messagePath) => k < j]_vars

\* C10: when a series' cursor answers nextWillReset for the blocks array, the
\* step queues for that series a reset-full first and then one append-full
\* per block from index 0 on, in block order.
C10_ResetFullThenBlocksFromZero ==
    [][(last'.op = "handlePlayerState" /\ last'.cache) =>
        \A i \in 1..Len(seriesConfigs) :
            NextWillReset(seriesConfigs[i].blockCursor, blocks') =>
                LET mine == ForSeries(Queued, seriesConfigs[i].messagePath)
                IN  /\ Len(mine) >= 1
                    /\ Len(mine) - 1 <= Len(blocks')
                    /\ mine[1] = Action("reset-full", seriesConfigs[i].messagePath, <<>>)
                    /\ \A k \in 2..Len(mine) :
                          /\ blocks'[k - 1] \in PayloadRefs
                          /\ mine[k] = Action("append-full", seriesConfigs[i].messagePath,
                                 ReadMessagePathItems(PayloadMsgs(blocks'[k - 1]),
                                                      seriesConfigs[i].timestampMethod))]_vars

\* a restart: earlier appends wait in the queue, then the reset-full and the
\* append-full of block 0
C10_Witness ==
    /\ last.op = "handlePlayerState" /\ last.cache
    /\ Len(pendingDataDispatch) >= 4
    /\ pendingDataDispatch[Len(pendingDataDispatch) - 1].type = "reset-full"
    /\ pendingDataDispatch[Len(pendingDataDispatch)].type = "append-full"
    /\ \E j \in 1..(Len(pendingDataDispatch) - 2) : pendingDataDispatch[j].type = "append-full"

\* C11: the builder queues new actions behind the waiting ones, and the
\* flush of getViewportDatasets leaves every series' buffers as if the
\* actions queued for it, over all handlePlayerState calls since the last
\* flush, had been applied one by one in the order they were queued; the
\* queue is empty afterwards.
C11_AppliedInSubmissionOrder ==
    [][/\ last'.op = "handlePlayerState" =>
            SubSeq(pendingDataDispatch', 1, Len(pendingDataDispatch)) = pendingDataDispatch
       /\ last'.op = "getViewportDatasets" =>
            /\ pendingDataDispatch' = <<>>
            /\ DOMAIN seriesByMessagePath' = DOMAIN Store
            /\ \A s \in DOMAIN Store :
                  LET want == InOrder(Store[s], ForSeries(pendingDataDispatch, s))
                  IN  /\ XY(seriesByMessagePath'[s].full) = XY(want.full)
                      /\ XY(seriesByMessagePath'[s].current) = XY(want.current)]_vars

\* a flush of four or more actions, two handlePlayerState calls' worth, that
\* leaves one block's point in full: a reset-full queued after an earlier
\* append-full took effect after it
C11_Witness ==
    /\ last.op = "getViewportDatasets" /\ last.flushed >= 4
    /\ \E s \in DOMAIN Store : Len(Store[s].full) = 1

\* C12: an action of an updateData batch that names a series the store does
\* not hold changes nothing, and the other actions of the batch, before and
\* after it, are applied: every series ends as if only its own actions had
\* been applied, in order.
C12_UnknownSeriesIsNoOp ==
    [][last'.op = "updateData" =>
        /\ DOMAIN seriesByMessagePath' = DOMAIN Store
        /\ \A s \in DOMAIN Store :
              seriesByMessagePath'[s] = InOrder(Store[s], ForSeries(last'.batch, s))]_vars

\* a batch with an action for the unknown series "b" between an append-full
\* and an append-current for "a", both of which took effect
C12_Witness ==
    /\ last.op = "updateData" /\ Len(last.batch) = 3
    /\ last.batch[2].series \notin DOMAIN Store
    /\ "a" \in DOMAIN Store
    /\ Store["a"].full # <<>> /\ XY(Store["a"].full)[Len(Store["a"].full)] = ItemLow
    /\ Store["a"].current # <<>>
    /\ XY(Store["a"].current)[Len(Store["a"].current)] = ItemHigh

IsResetThenAppend(batch) ==
    /\ Len(batch) = 2
    /\ batch[1].type = "reset-full" /\ batch[2].type = "append-full"
    /\ batch[1].series = batch[2].series
    /\ batch[1].series \in DOMAIN Store

\* s is in non-decreasing x
Ascending(s) == \A i \in 1..(Len(s) - 1) : s[i].x <= s[i + 1].x

\* s and t hold the same points, each as often
SamePoints(s, t) ==
    /\ Len(s) = Len(t)
    /\ \A p \in {s[i] : i \in 1..Len(s)} :
          Cardinality({i \in 1..Len(s) : s[i] = p}) = Cardinality({i \in 1..Len(t) : t[i] = p})

\* C14 as stated: for any timestamp method, reset-full followed by
\* append-full with items X leaves full equal to X, same order and values.
C14_ResetThenAppendIsX ==
    (last.op = "updateData" /\ IsResetThenAppend(last.batch)) =>
        XY(Store[last.batch[1].series].full) = last.batch[2].items

\* C14, amended: reset-full followed by append-full with items X leaves in
\* full exactly the points of X, whatever full held before: in the order of
\* X for a receive-time series, in non-decreasing x for a header-stamp
\* series.
C14_ResetThenAppendHoldsX ==
    (last.op = "updateData" /\ IsResetThenAppend(last.batch)) =>
        LET series == Store[last.batch[1].series]
            X == last.batch[2].items
        IN  IF series.config.timestampMethod = "headerStamp"
            THEN SamePoints(XY(series.full), X) /\ Ascending(series.full)
            ELSE XY(series.full) = X

\* a header-stamp series after reset-full and append-full of two items in
\* descending x
C14_Witness ==
    /\ last.op = "updateData" /\ IsResetThenAppend(last.batch)
    /\ last.batch[2].items = <<ItemHigh, ItemLow>>
    /\ Store[last.batch[1].series].config.timestampMethod = "headerStamp"
    /\ XY(Store[last.batch[1].series].full) = <<ItemLow, ItemHigh>>

\* the items of the actions of a batch, joined
RECURSIVE Joined(_)
Joined(batch) == IF batch = <<>> THEN <<>> ELSE batch[1].items \o Joined(Tail(batch))

\* C15: for a series whose timestamp method is not header-stamp, append-full
\* actions whose chunks continue full in non-decreasing x leave full equal
\* to what it was followed by the chunks in submission order.
C15_AppendFullConcatenates ==
    [][(/\ last'.op = "updateData"
        /\ \A i \in 1..Len(last'.batch) :
              last'.batch[i].type = "append-full" /\ last'.batch[i].series = last'.batch[1].series
        /\ last'.batch[1].series \in DOMAIN Store
        /\ Store[last'.batch[1].series].config.timestampMethod # "headerStamp"
        /\ Ascending(XY(Store[last'.batch[1].series].full) \o Joined(last'.batch)))
       => XY(seriesByMessagePath'[last'.batch[1].series].full)
              = XY(Store[last'.batch[1].series].full) \o Joined(last'.batch)]_vars

\* two append-full chunks of a receive-time series arrived in ascending x
C15_Witness ==
    /\ last.op = "updateData"
    /\ last.batch = <<Action("append-full", "a", <<ItemLow>>),
                      Action("append-full", "a", <<ItemHigh>>)>>
    /\ "a" \in DOMAIN Store /\ Store["a"].config.timestampMethod = "receiveTime"
    /\ XY(Store["a"].full) = <<ItemLow, ItemHigh>>

\* the x / y of the NaN entry
NaNPoint == [x |-> NaN, y |-> NaN]

C17_CsvIsFullThenCurrent ==
    last.op = "getCsvData" =>
        /\ DOMAIN last.csv = {n \in DOMAIN Store : Store[n].config.enabled}
        /\ \A n \in DOMAIN last.csv :
              /\ last.csv[n].label = n
              /\ last.csv[n].data = XY(Store[n].full) \o XY(Store[n].current)

\* csv data of a store with an enabled series that has points in both
\* buffers and a disabled series
C17_Witness ==
    /\ last.op = "getCsvData"
    /\ \E n \in DOMAIN last.csv : Len(Store[n].full) = 3 /\ Len(last.csv[n].data) = 4
    /\ \E n \in DOMAIN Store : ~Store[n].config.enabled

\* C18: the budget handed to the line downsampler for a series is the global
\* maximum divided by the number of enabled series.
C18_BudgetDividedByEnabledSeries ==
    last.op = "getViewportDatasets" =>
        \A n \in DOMAIN last.datasets :
            last.datasets[n].showLine =>
                last.datasets[n].maxPoints
                    * Cardinality({m \in DOMAIN Store : Store[m].config.enabled}) = MAX_POINTS

C20_IndicesBoundedByPixels ==
    /\ last.op = "downsampleTimeseries" =>
          Len(last.indices) <= IndicesPerInterval * (2 * last.view.width + 1) + 2
    /\ last.op = "downsampleScatter" =>
          Len(last.indices) <= last.view.width * last.view.height

\* the pixel column and row of a datum
XPixel(d, view) == Pixel(d.x, view.width, view.xmin, view.xmax)
YPixel(d, view) == Pixel(d.y, view.height, view.ymin, view.ymax)

\* the datums an output names
Picked(items, indices) == {items[indices[k] + 1] : k \in 1..Len(indices)}

\* every datum lies in the buffer window and maps to the same pixel column
OneColumn(items, view) ==
    /\ items # <<>>
    /\ \A i \in 1..Len(items) :
          /\ items[i].x # NaN /\ items[i].y # NaN
          /\ ~BeforeWindow(items[i], view) /\ ~PastWindow(items[i], view)
          /\ XPixel(items[i], view) = XPixel(items[1], view)

\* C21: when all points given to the timeseries downsampler fall into one
\* pixel column, the output names a point with the column's smallest y pixel
\* and a point with its largest y pixel.
C21_ColumnMinAndMaxKept ==
    (last.op = "downsampleTimeseries" /\ OneColumn(last.items, last.view)) =>
        LET rows == {YPixel(last.items[i], last.view) : i \in 1..Len(last.items)}
            kept == {YPixel(d, last.view) : d \in Picked(last.items, last.indices)}
        IN  SetMin(rows) \in kept /\ SetMax(rows) \in kept

\* the datums past the buffer window that an output names
PastIndices(items, view) == {items[i].index : i \in {j \in 1..Len(items) : PastWindow(items[j], view)}}

\* C22: for input sorted by x with a point past the buffer window, exactly
\* one such point is in the output, it is the first of them in input order
\* and it is the last element of the output.
C22_FirstPastWindowAtTail ==
    (last.op = "downsampleTimeseries" /\ PastIndices(last.items, last.view) # {}) =>
        LET past == PastIndices(last.items, last.view)
            out == last.indices
        IN  /\ Cardinality({k \in 1..Len(out) : out[k] \in past}) = 1
            /\ out[Len(out)] = SetMin(past)

\* the number of datums before the buffer window; in sorted input they are
\* the first ones
BeforeCount(items, view) == Cardinality({i \in 1..Len(items) : BeforeWindow(items[i], view)})

\* C23: for input sorted by x, the points before the buffer window leave
\* exactly one index in the output, at position 0, and the rest of the output
\* is what the downsampler returns for the other points alone.
C23_BeforeWindowCollapsed ==
    (last.op = "downsampleTimeseries" /\ BeforeCount(last.items, last.view) > 0) =>
        LET n == BeforeCount(last.items, last.view)
            out == last.indices
            rest == SubSeq(last.items, n + 1, Len(last.items))
        IN  /\ out # <<>> /\ out[1] = last.items[n].index
            /\ \A k \in 2..Len(out) : ~BeforeWindow(last.items[out[k] + 1], last.view)
            /\ Tail(out) = DownsampleTimeseries(rest, last.view)

\* two points before the window followed by points inside it
C23_Witness ==
    /\ last.op = "downsampleTimeseries"
    /\ BeforeCount(last.items, last.view) = 2
    /\ Len(last.items) = 4 /\ ~PastWindow(last.items[4], last.view)
    /\ last.indices[1] = 1 /\ Len(last.indices) >= 3

\* C24: under a view whose width or height is 0 both downsamplers return an
\* empty list of indices.
C24_FlatViewReturnsNothing ==
    (/\ last.op \in {"downsampleTimeseries", "downsampleScatter"}
     /\ (last.view.width = 0 \/ last.view.height = 0)) => last.indices = <<>>

\* the state downsampleTimeseries starts its loop with
LoopStart ==
    [out |-> <<>>, intFirst |-> NoInterval, intLast |-> NoInterval,
     intMin |-> NoInterval, intMax |-> NoInterval, past |-> 0, hasPast |-> FALSE]

\* the datum at position i starts a new interval: it is the intFirst of the
\* state its iteration leaves
StartsInterval(items, i, view) ==
    LET st == DownsampleStep(DownsampleLoop(LoopStart, SubSeq(items, 1, i - 1), view),
                             items[i], view)
    IN  ~BeforeWindow(items[i], view) /\ ~PastWindow(items[i], view)
        /\ st.intFirst.has /\ st.intFirst.index = items[i].index

\* how often an index is in an output
Occurrences(indices, index) == Cardinality({k \in 1..Len(indices) : indices[k] = index})

\* C25: a point whose x or y is NaN is an interval of the timeseries
\* downsampler by itself -- it starts an interval and so does the point after
\* it -- and its index is in the output exactly once.
C25_NaNPointIsOwnInterval ==
    last.op = "downsampleTimeseries" =>
        \A i \in 1..Len(last.items) :
            (last.items[i].x = NaN \/ last.items[i].y = NaN) =>
                /\ StartsInterval(last.items, i, last.view)
                /\ i < Len(last.items) => StartsInterval(last.items, i + 1, last.view)
                /\ Occurrences(last.indices, last.items[i].index) = 1

\* datum.x within [bounds.x.min, bounds.x.max]
WithinXBounds(d, view) == d.x # NaN /\ d.x >= view.xmin /\ d.x <= view.xmax

\* the rounded pixel cell of a datum
Cell(d, view) ==
    <<RoundPixel(d.x, view.width, view.xmin, view.xmax),
      RoundPixel(d.y, view.height, view.ymin, view.ymax)>>

\* the indices of the datums that are the first of their cell among those
\* within the x bounds
FirstOfCells(items, view) ==
    {items[i].index : i \in {j \in 1..Len(items) :
        /\ WithinXBounds(items[j], view)
        /\ \A k \in 1..(j - 1) :
              WithinXBounds(items[k], view) => Cell(items[k], view) # Cell(items[j], view)}}

\* C26: the scatter downsampler returns exactly one index for every pixel
\* cell that holds a point within the x bounds, that of the first such point
\* in input order, and no other index.
C26_FirstPointOfEachCell ==
    last.op = "downsampleScatter" =>
        /\ {last.indices[k] : k \in 1..Len(last.indices)} = FirstOfCells(last.items, last.view)
        /\ Len(last.indices) = Cardinality(FirstOfCells(last.items, last.view))

\* C29: a call of the multiplexer whose scheme returns a number i in
\* [0, counts.length) gives the client the instance at index i, which gains
\* one client, and calls create not at all; any other result calls create
\* once and gives the client the new instance, appended with one client.
C29_SchemePicksOrCreates ==
    [][last'.op = "multiplex" =>
        LET old == multiplexer.instances
            new == multiplexer'.instances
            r == last'.result
        IN  IF r.defined /\ r.index \in 0..(Len(old) - 1)
            THEN /\ multiplexer'.created = multiplexer.created
                 /\ last'.instance = old[r.index + 1].value
                 /\ Len(new) = Len(old)
                 /\ \A i \in 1..Len(old) :
                       /\ new[i].value = old[i].value
                       /\ new[i].numClients
                            = old[i].numClients + (IF i = r.index + 1 THEN 1 ELSE 0)
            ELSE /\ multiplexer'.created = multiplexer.created + 1
                 /\ \A i \in 1..Len(old) : old[i].value # last'.instance
                 /\ new = Append(old, [value |-> last'.instance, numClients |-> 1])]_vars

\* a third client was given the second of two instances, and a client got a
\* new instance for an index past the end
C29_Witness ==
    /\ last.op = "multiplex" /\ last.result = [defined |-> TRUE, index |-> 1]
    /\ Len(multiplexer.clients) = 3
    /\ Counts(multiplexer.instances) = <<1, 2>>
    /\ last.instance = 1

\* C30: destroy is called for an instance once, when the last of the clients
\* that were handed it has called its dispose function, and not while one of
\* them has not.
C30_DestroyedWhenLastClientDisposes ==
    \A v \in 0..(multiplexer.created - 1) :
        LET m == multiplexer
            holders == {c \in 1..Len(m.clients) : m.clients[c].instance = v}
            allDisposed == \A c \in holders : m.clients[c].disposals >= 1
        IN  Occurrences(m.destroyed, v) = (IF allDisposed THEN 1 ELSE 0)

\* C27: a render pass that has ended is followed by the start of a dataset
\* pass, and every data action, size and range queued is followed by a
\* getViewportDatasets call that is made after updateData received that data
\* and carries a viewport with that size and range, or later ones.
C27_RenderPassFeedsDatasets ==
    /\ coordinator.owed ~> ~coordinator.owed
    /\ \A n \in 1..MaxEvents :
          /\ (coordinator.queued.data >= n) ~> (coordinator.sent.data >= n)
          /\ (coordinator.queued.size >= n) ~> (coordinator.sent.size >= n)
          /\ (coordinator.queued.x >= n) ~> (coordinator.sent.x >= n)

\* a second batch of data, queued while the first was on its way to
\* updateData, has reached a getViewportDatasets call of a later pass
C27_Witness ==
    /\ last.op = "getViewportDatasets"
    /\ coordinator.queued.data = 2 /\ coordinator.sent.data = 2
    /\ ~coordinator.owed

C32_LastIsFinalPointOfInterval ==
    (/\ last.op = "downsampleTimeseries"
     /\ OneColumn(last.items, last.view)
     /\ YPixel(last.items[Len(last.items)], last.view) # YPixel(last.items[1], last.view))
      => /\ last.indices # <<>>
         /\ last.indices[Len(last.indices)] = last.items[Len(last.items)].index

\* C33: getViewportDatasets and getCsvData leave the store as it was: every
\* series has the same datums in full and in current, index included, after
\* the call as before it.
C33_ReadsLeaveStoreAlone ==
    [][last'.op \in {"getViewportDatasets", "getCsvData"}
          => seriesByMessagePath' = seriesByMessagePath]_vars

\* C40: for a series whose full buffer is empty and whose current buffer is
\* not, the sequence getViewportDatasets builds is the current buffer: it
\* starts with the first current point and holds no NaN entry.
C40_CurrentAloneHasNoMarker ==
    last.op = "getViewportDatasets" =>
        \A name \in DOMAIN last.datasets :
            LET series == seriesByMessagePath[name]
                all == last.datasets[name].all
            IN  (series.full = <<>> /\ series.current # <<>>) =>
                    /\ XY(all) = XY(series.current)
                    /\ all[1].x # NaN

\* the items of an action later than the last entry of a full buffer, all of
\* them when the buffer is empty
Fresh(items, full) ==
    SelectSeq(items, LAMBDA item : full = <<>> \/ item.receiveTime > full[Len(full)].receiveTime)

\* C34: in the custom-x-axis Impl an append-current and an append-current-x
\* push exactly the items later than the last full entry, and after an
\* append-full-x the first current x value, if any, is later than the last
\* full x value.
C34_CurrentNeverDuplicatesFull ==
    [][/\ (last'.op = "customUpdateData" /\ last'.action.type = "append-current-x")
            => custom'.xValues.current
                 = custom.xValues.current \o Fresh(last'.action.items, custom.xValues.full)
       /\ (/\ last'.op = "customUpdateData" /\ last'.action.type = "append-current"
           /\ last'.action.series \in DOMAIN custom.seriesByMessagePath)
            => LET series == custom.seriesByMessagePath[last'.action.series]
               IN  custom'.seriesByMessagePath[last'.action.series].current
                     = series.current \o Fresh(last'.action.items, series.full)
       /\ (last'.op = "customUpdateData" /\ last'.action.type = "append-full-x")
            => LET x == custom'.xValues
               IN  x.current = <<>> \/ x.full = <<>>
                   \/ x.current[1].receiveTime > x.full[Len(x.full)].receiveTime]_vars

\* the points a series reads from the messages under a timestamp method
PointsUnder(method) == {ReadMessagePathItems(<<msg>>, method)[1] : msg \in LiveMsgs}

\* C36: the buffers of a series hold only points extracted under the
\* series' present key: after setConfig gave a message path a new timestamp
\* method, no point that was read under the old method and was still queued
\* reaches the buffers of the new series.
C36_QueuedPointsOfOldKeyDropped ==
    \A name \in DOMAIN seriesByMessagePath :
        LET series == seriesByMessagePath[name]
            held == XY(series.full \o series.current)
        IN  \A i \in 1..Len(held) : held[i] \in PointsUnder(series.config.timestampMethod)

\* C38: the export of the builder holds the points of every action that
\* handlePlayerState has queued before the call: it is the export of the
\* store with the pending actions applied.
C38_ExportHoldsQueuedPoints ==
    last.op = "builderGetCsvData" =>
        last.csv = GetCsvData(UpdateData(seriesByMessagePath, pendingDataDispatch))

\* series item i of the new configuration took its block cursor from an
\* item of the previous one
CursorCarriedOver(i) ==
    \E j \in 1..Len(seriesConfigs) :
        /\ seriesConfigs[j].key = seriesConfigs'[i].key
        /\ seriesConfigs'[i].blockCursor = seriesConfigs[j].blockCursor

\* the worker kept, under the item's message path, the full buffer of the
\* series with the item's key
FullCarriedOver(i) ==
    LET name == seriesConfigs'[i].messagePath
    IN  /\ name \in DOMAIN seriesByMessagePath
        /\ seriesByMessagePath[name].config.key = seriesConfigs'[i].key
        /\ seriesByMessagePath'[name].config.key = seriesConfigs'[i].key
        /\ seriesByMessagePath'[name].full = seriesByMessagePath[name].full

\* C37: after every setConfig a series keeps its block cursor if and only
\* if the worker keeps the full buffer of that series.
C37_CursorKeptIffFullKept ==
    [][last'.op = "setConfig" =>
        \A i \in 1..Len(seriesConfigs') : CursorCarriedOver(i) <=> FullCarriedOver(i)]_vars

\* the cache only loads: the array does not shrink, a loaded array for the
\* topic stays the same array, a loaded block stays loaded, and the first
\* block's array for the topic keeps its identity
OnlyLoads(old, new) ==
    /\ Len(new) >= Len(old)
    /\ FirstBlockTopic(new) = FirstBlockTopic(old)
    /\ \A i \in 1..Len(old) :
          /\ old[i] \in PayloadRefs => new[i] = old[i]
          /\ old[i] = NoTopic => new[i] # Absent

\* the append-full actions of the blocks below index k that hold messages
\* for the topic, one per block, in block order
RECURSIVE OncePerBlock(_, _, _)
OncePerBlock(item, blks, k) ==
    IF k = 0 THEN <<>>
    ELSE OncePerBlock(item, blks, k - 1)
         \o (IF k <= Len(blks) /\ blks[k] \in PayloadRefs
             THEN <<Action("append-full", item.messagePath,
                           ReadMessagePathItems(PayloadMsgs(blks[k]), item.timestampMethod))>>
             ELSE <<>>)

\* the full buffer of the one configured series, pending actions applied,
\* is what one append-full per block below the cursor gives
QueuedOncePerBlock(cfgs, store, pending, blks) ==
    /\ Len(cfgs) = 1
    /\ cfgs[1].messagePath \in DOMAIN store
    /\ LET item == cfgs[1]
           name == item.messagePath
           empty == [store EXCEPT ![name].full = <<>>]
       IN  XY(UpdateData(store, pending)[name].full)
             = XY(UpdateData(empty, OncePerBlock(item, blks, item.blockCursor.nextBlockIdx))[name].full)

\* C39: while the cache only loads and the first block's array for the
\* topic stays the same, every block the cursor has passed that holds
\* messages for the topic has been queued in one append-full, in block
\* order: none skipped, none queued twice.
C39_EveryLoadedBlockQueuedOnce ==
    [][(/\ last'.op = "handlePlayerState" /\ last'.cache
        /\ OnlyLoads(blocks, blocks')
        /\ QueuedOncePerBlock(seriesConfigs, seriesByMessagePath, pendingDataDispatch, blocks))
       => QueuedOncePerBlock(seriesConfigs', seriesByMessagePath', pendingDataDispatch', blocks')]_vars

\* the actions of the updateData calls posted and not yet run
RECURSIVE PostedActions(_)
PostedActions(inbox) ==
    IF inbox = <<>> THEN <<>> ELSE Head(inbox).actions \o PostedActions(Tail(inbox))

====
